---- MODULE Spec2Model ----
(***************************************************************************)
(* IB-POC mean-reversion strategy: the bar-driven decision engine          *)
(* (main.py, IBPOCMeanReversionStrategy) together with the indicator       *)
(* state it reads.                                                         *)
(*                                                                         *)
(* Representation.  Prices are integers in units of 1/TickSize of a tick   *)
(* (a tick is 0.25 index points), so that the halvings of the stop         *)
(* distance (stop_ib_multiplier = 0.5, end-of-day tightening by 0.5) stay  *)
(* exact, as they are in binary floating point.  Fractions given as        *)
(* parameters (0.50, 0.70, 0.01 ...) are integers in hundredths (Pct).     *)
(* Money is kept in 1/UnitsPerPoint of a dollar.  Python's None is         *)
(* NoPrice for a price, NoDate for a date and NoClass for a string.        *)
(*                                                                         *)
(* The bar stream is sampled at the times of SessionTimes.  What depends   *)
(* on the detail of the one-minute stream between two samples (the         *)
(* bucket that holds the most volume, the candle pattern flags, the        *)
(* open-type of the first thirty minutes) is drawn with \E inside OnData,  *)
(* within what the indicator's code allows in its current state.           *)
(***************************************************************************)
EXTENDS Integers, Sequences, FiniteSets, TLC

\* ------------------------------------------------------------------ bounds
\* Last calendar date a bar may carry (date 1 is a Monday).
MaxDate == 9

\* ---------------------------------------------------- program constants
Pct == 100
TickSize == 16
UnitsPerPoint == 4 * TickSize
NoPrice == -1
NoDate == 0
NoClass == "none"

market_open == 570
ib_end == 630
new_entry_cutoff == 870
tighten_stops_time == 900
close_all_time == 945
optimal_start == 630
optimal_end == 750
analysis_end == 600
session_start == 570

ib_narrow_threshold == 70
ib_wide_threshold == 130
min_extension == 50
max_extension == 150
optimal_extension_low == 50
optimal_extension_high == 100
risk_per_trade == 1
max_daily_risk == 3
stop_ib_multiplier == 50
min_rr_ratio == 200
narrow_ib_size_mult == 50
medium_ib_size_mult == 100
wide_ib_size_mult == 100
min_score_to_trade == 4
contract_multiplier == 5
min_capital == 10000
min_ib_history == 5
rolling_period == 20
min_profile_bars == 5
candle_lookback == 5
eod_tighten_pct == 50
rr_bonus_ratio == 250

\* ------------------------------------------------------------ input menus
\* Times of day (minutes after midnight) at which the stream is sampled:
\* 09:00 | 09:30 09:45 10:00 10:15 | 10:30 12:30 | 14:30 15:00 15:30 | 15:45
SessionTimes == {540, 570, 585, 600, 615, 630, 750, 870, 900, 930, 945}

\* Times of day at which the first slice of a trading date may arrive.
OpenTimes == {540, 570, 630}

\* Times of day at which the last slice of a trading date may arrive: the
\* stream of a date ends with its 15:45 bar or, cut short, with its 15:30 bar.
LastTimes == {930, 945}

\* Time of day of a Sunday-evening slice (the futures session reopens at 18:00).
SundayTime == 18 * 60

\* Price levels of the stream, 50 index points (200 ticks) apart.
T(k) == k * 200 * TickSize

\* Bars of the stream: [high, low, close, volume], low <= close <= high.
IBBars ==
    { [high |-> T(12), low |-> T(8), close |-> T(12), volume |-> 100],
      [high |-> T(14), low |-> T(6), close |-> T(8), volume |-> 100] }

Closes == { T(4), T(6), T(7), T(8), T(10), T(12), T(13), T(14), T(16), T(20) }

FlatBar(c, v) == [high |-> c, low |-> c, close |-> c, volume |-> v]

\* Price levels at which the stream's volume may concentrate.
PocLevels == { T(8), T(12) }

NoFlags == [any_bullish |-> FALSE, any_bearish |-> FALSE]

Bullish == [any_bullish |-> TRUE, any_bearish |-> FALSE]

Bearish == [any_bullish |-> FALSE, any_bearish |-> TRUE]

Event(b, f, h, ot) == [bar |-> b, flags |-> f, heavy |-> h, open_type |-> ot]

\* What one slice of the stream carries at time of day tod: the bar, the
\* level its volume concentrates at, the pattern flags its shape gives and the
\* open type the bars of the analysis window give.
Events(tod) ==
    IF tod < market_open
    THEN { Event(FlatBar(T(10), 100), NoFlags, T(10), "open_auction") }
    ELSE IF tod < ib_end
    THEN { Event(b, NoFlags, T(10), ot) :
             b \in IBBars,
             ot \in IF tod = analysis_end THEN {"open_drive", "open_auction"}
                    ELSE {"open_auction"} }
    ELSE IF tod < new_entry_cutoff
    THEN { Event(FlatBar(c, 100), NoFlags, h, "open_auction") :
             c \in Closes, h \in PocLevels }
           \cup
         { Event(FlatBar(c, 100), f, h, "open_auction") :
             c \in {T(6), T(7), T(14)}, f \in {Bullish, Bearish}, h \in PocLevels }
           \cup
         { Event(FlatBar(c, 0), NoFlags, T(10), "open_auction") : c \in {T(8), T(12)} }
    ELSE IF tod < close_all_time
    THEN { Event(FlatBar(c, 100), NoFlags, h, "open_auction") :
             c \in Closes, h \in PocLevels }
    ELSE { Event(FlatBar(c, 100), NoFlags, T(10), "open_auction") : c \in {T(4), T(13)} }

\* One fixed slice per time of day: the stream of the five sessions that fill
\* the rolling history after the algorithm starts.
ScriptedEvents(tod) ==
    { Event(b, NoFlags, T(10), "open_auction") :
        b \in IF market_open <= tod /\ tod < ib_end THEN IBBars
              ELSE { FlatBar(T(10), 100) } }

\* ---- the stream of one session around the 4490.00-4500.00 initial balance
\* A price of w index points and q quarter-point ticks.
Pt(w, q) == w * UnitsPerPoint + q * TickSize

\* Times of day sampled after the initial balance: 10:30 and 13:30 (TRADING,
\* inside and outside the 10:30-12:30 window), 14:30, 15:00 and 15:45.
EntryTimes == {630, 810, 870, 900, 945}

\* Closes below, inside and above the initial balance: extensions of 0.475,
\* 0.5, 0.55, 1.1, 1.5 and 1.6 IB ranges below 4490.00, 0.55 above 4500.00.
EntryCloses ==
    { Pt(4485, 1), Pt(4485, 0), Pt(4484, 2), Pt(4479, 0), Pt(4475, 0),
      Pt(4474, 0), Pt(4495, 0), Pt(4505, 2) }

\* Closes that come with a light (50) as well as a heavy (100) bar volume.
EntryVolumeCloses == { Pt(4484, 2), Pt(4479, 0) }

\* Levels inside the initial balance at which the session's volume may concentrate.
EntryPocLevels == { Pt(4497, 0), Pt(4494, 2), Pt(4492, 0), Pt(4490, 0) }

EntryEvents(tod) ==
    IF tod < new_entry_cutoff
    THEN { Event(FlatBar(c, 100), f, h, "open_auction") :
             c \in EntryCloses, f \in {NoFlags, Bullish, Bearish}, h \in EntryPocLevels }
           \cup
         { Event(FlatBar(c, 50), f, h, "open_auction") :
             c \in EntryVolumeCloses, f \in {NoFlags, Bullish}, h \in EntryPocLevels }
    ELSE IF tod < close_all_time
    THEN { Event(FlatBar(c, 100), NoFlags, Pt(4497, 0), "open_auction") :
             c \in { Pt(4484, 2), Pt(4495, 0) } }
    ELSE { Event(FlatBar(Pt(4495, 0), 100), NoFlags, Pt(4497, 0), "open_auction") }

\* The slices and the sampled times of each stream.
StreamEvents(stream, tod) ==
    IF stream = "scripted" THEN ScriptedEvents(tod)
    ELSE IF stream = "entry" THEN EntryEvents(tod)
    ELSE Events(tod)

StreamTimes(stream) == IF stream = "entry" THEN EntryTimes ELSE SessionTimes

TradingPhase == {"pre_market", "ib_formation", "trading", "eod_management", "closed"}

OpenTypes == {"open_drive", "open_test_drive", "open_rejection_reverse",
              "open_auction", "unknown"}

\* --------------------------------------------------------------- helpers
Min(a, b) == IF a <= b THEN a ELSE b
Abs(a) == IF a >= 0 THEN a ELSE -a

RECURSIVE SumSeq(_)
SumSeq(s) == IF s = <<>> THEN 0 ELSE Head(s) + SumSeq(Tail(s))

\* date.weekday(): Monday is 0; date 1 is a Monday.
weekday(date) == (date - 1) % 7

\* ===================================================== InitialBalanceIndicator
ib_new ==
    [current_date |-> NoDate, ibh |-> NoPrice, ibl |-> NoPrice, ib_volume |-> 0,
     ib_complete |-> FALSE, ib_ranges |-> <<>>, is_ready |-> FALSE]

\* property ib_range: IBH - IBL, None while either is None.
ib_range(s) ==
    IF s.ibh # NoPrice /\ s.ibl # NoPrice THEN s.ibh - s.ibl ELSE NoPrice

\* property ib_midpoint, in half units: (IBH + IBL) / 2 is Midpoint2 / 2.
ib_midpoint2(s) ==
    IF s.ibh # NoPrice /\ s.ibl # NoPrice THEN s.ibh + s.ibl ELSE NoPrice

\* A classification whose narrow band includes the threshold.
get_ib_classification_inclusive(s) ==
    LET r == ib_range(s)
        n == Len(s.ib_ranges)
        total == SumSeq(s.ib_ranges)
    IN  IF r = NoPrice \/ n = 0 THEN NoClass
        ELSE IF total = 0 THEN "medium"
        ELSE IF r * n * Pct <= ib_narrow_threshold * total THEN "narrow"
        ELSE IF r * n * Pct > ib_wide_threshold * total THEN "wide"
        ELSE "medium"

\* get_ib_classification, with ib_ratio = ib_range / (sum(ranges) / len(ranges))
\* compared to the thresholds by cross-multiplication.
get_ib_classification(s) ==
    LET r == ib_range(s)
        n == Len(s.ib_ranges)
        total == SumSeq(s.ib_ranges)
    IN  IF r = NoPrice \/ n = 0 THEN NoClass
        ELSE IF total = 0 THEN "medium"
        ELSE IF r * n * Pct < ib_narrow_threshold * total THEN "narrow"
        ELSE IF r * n * Pct > ib_wide_threshold * total THEN "wide"
        ELSE "medium"

\* An append that never evicts.
deque_append_unbounded(q, x, maxlen) == Append(q, x)

\* deque(maxlen=rolling_period).append
deque_append(q, x, maxlen) ==
    IF Len(q) >= maxlen THEN Append(Tail(q), x) ELSE Append(q, x)

\* A reset that leaves the completion flag as it is.
reset_session_keeping_complete(s) ==
    [s EXCEPT !.ibh = NoPrice, !.ibl = NoPrice, !.ib_volume = 0]

reset_session(s) ==
    [s EXCEPT !.ibh = NoPrice, !.ibl = NoPrice, !.ib_volume = 0, !.ib_complete = FALSE]

\* An update whose IB window includes its end.
ib_update_through_end(s, bar, date, tod) ==
    LET s1 == IF s.current_date # date
              THEN LET saved == IF s.ib_complete /\ ib_range(s) # NoPrice /\ ib_range(s) > 0
                                THEN [s EXCEPT !.ib_ranges =
                                          deque_append(s.ib_ranges, ib_range(s), rolling_period)]
                                ELSE s
                   IN  reset_session([saved EXCEPT !.current_date = date])
              ELSE s
    IN  IF market_open <= tod /\ tod <= ib_end
        THEN [s1 EXCEPT
                !.ibh = IF s1.ibh = NoPrice \/ bar.high > s1.ibh THEN bar.high ELSE s1.ibh,
                !.ibl = IF s1.ibl = NoPrice \/ bar.low < s1.ibl THEN bar.low ELSE s1.ibl,
                !.ib_volume = s1.ib_volume + bar.volume]
        ELSE IF tod >= ib_end /\ ~s1.ib_complete
        THEN [s1 EXCEPT !.ib_complete = TRUE,
                        !.is_ready = (Len(s1.ib_ranges) >= min_ib_history)]
        ELSE s1

ib_update(s, bar, date, tod) ==
    LET s1 == IF s.current_date # date
              THEN LET saved == IF s.ib_complete /\ ib_range(s) # NoPrice /\ ib_range(s) > 0
                                THEN [s EXCEPT !.ib_ranges =
                                          deque_append(s.ib_ranges, ib_range(s), rolling_period)]
                                ELSE s
                   IN  reset_session([saved EXCEPT !.current_date = date])
              ELSE s
    IN  IF market_open <= tod /\ tod < ib_end
        THEN [s1 EXCEPT
                !.ibh = IF s1.ibh = NoPrice \/ bar.high > s1.ibh THEN bar.high ELSE s1.ibh,
                !.ibl = IF s1.ibl = NoPrice \/ bar.low < s1.ibl THEN bar.low ELSE s1.ibl,
                !.ib_volume = s1.ib_volume + bar.volume]
        ELSE IF tod >= ib_end /\ ~s1.ib_complete
        THEN [s1 EXCEPT !.ib_complete = TRUE,
                        !.is_ready = (Len(s1.ib_ranges) >= min_ib_history)]
        ELSE s1

\* get_extension_amount as a fraction [n, d]; d = 0 stands for None.
NoFraction == [n |-> 0, d |-> 0]

get_extension_amount(s, current_price, direction) ==
    LET r == ib_range(s)
    IN  IF r = NoPrice \/ r = 0 THEN NoFraction
        ELSE IF direction = "long" /\ s.ibl # NoPrice
             THEN LET e == s.ibl - current_price
                  IN  IF e > 0 THEN [n |-> e, d |-> r] ELSE [n |-> 0, d |-> 1]
        ELSE IF direction = "short" /\ s.ibh # NoPrice
             THEN LET e == current_price - s.ibh
                  IN  IF e > 0 THEN [n |-> e, d |-> r] ELSE [n |-> 0, d |-> 1]
        ELSE NoFraction

\* ========================================================= SessionPOCIndicator
\* Of the histogram only the levels of PocLevels that are among its keys are
\* carried; which bucket holds the most volume after a bar that added volume
\* is an input of OnData.
poc_new ==
    [session_date |-> NoDate, keys |-> {}, poc |-> NoPrice,
     is_ready |-> FALSE, bar_count |-> 0]

poc_reset(s) ==
    [s EXCEPT !.keys = {}, !.poc = NoPrice, !.is_ready = FALSE, !.bar_count = 0]

round_to_tick(price) == ((2 * price + TickSize) \div (2 * TickSize)) * TickSize

\* The keys _distribute_bar_volume touches: every bucket from the bar's low to
\* its high, none when the bar has no volume.
distribute_bar_volume(keys, bar) ==
    IF bar.volume <= 0 THEN keys
    ELSE keys \cup { p \in PocLevels :
                       round_to_tick(bar.low) <= p /\ p <= round_to_tick(bar.high) }

\* The bucket _calculate_poc returns after a bar of the stream whose volume
\* concentrates at level heavy: that level when it is a key of the histogram,
\* the bar's own bucket otherwise; unchanged when the bar adds no volume.
calculate_poc(s, bar, date, tod, heavy) ==
    LET fresh == s.session_date # date /\ tod >= session_start
        keys0 == IF fresh THEN {} ELSE s.keys
    IN  IF tod < session_start \/ bar.volume <= 0
        THEN (IF fresh THEN NoPrice ELSE s.poc)
        ELSE IF heavy \in distribute_bar_volume(keys0, bar) THEN heavy
        ELSE round_to_tick(bar.close)

poc_update(s, bar, date, tod, new_poc) ==
    LET s1 == IF s.session_date # date /\ tod >= session_start
              THEN [poc_reset(s) EXCEPT !.session_date = date]
              ELSE s
    IN  IF tod < session_start THEN s1
        ELSE LET s2 == [s1 EXCEPT !.bar_count = s1.bar_count + 1]
                 s3 == IF bar.volume <= 0 THEN s2
                       ELSE [s2 EXCEPT !.keys = distribute_bar_volume(s2.keys, bar),
                                       !.poc = new_poc]
             IN  IF s3.bar_count >= min_profile_bars /\ s3.poc # NoPrice
                 THEN [s3 EXCEPT !.is_ready = TRUE]
                 ELSE s3

\* ========================================================== OpenTypeClassifier
\* The bars of the analysis window are carried only by whether any was
\* collected; the type _classify derives from their content is an input of
\* OnData, and is "unknown" when the window stayed empty (fewer than 15 bars).
oc_new ==
    [current_date |-> NoDate, classification |-> NoClass,
     classification_complete |-> FALSE, has_bars |-> FALSE]

oc_update(s, date, tod, open_type) ==
    LET s1 == IF s.current_date # date
              THEN [oc_new EXCEPT !.current_date = date]
              ELSE s
    IN  IF tod < market_open THEN s1
        ELSE IF s1.classification_complete THEN s1
        ELSE IF tod >= analysis_end
             THEN [s1 EXCEPT !.classification = IF s1.has_bars THEN open_type
                                                ELSE "unknown",
                             !.classification_complete = TRUE]
        ELSE [s1 EXCEPT !.has_bars = TRUE]

\* The open-drive filter switched off.
is_trend_day_likely_never(s) == FALSE

is_trend_day_likely(s) == s.classification = "open_drive"

\* ============================================================= PriorDayContext
\* Only what on_data's control flow reads: the date, whether the session has
\* data (_session_high is not None) and is_ready.
pd_new == [current_date |-> NoDate, has_session |-> FALSE, is_ready |-> FALSE]

session_end == 960

pd_update(s, date, tod) ==
    LET s1 == IF s.current_date # date
              THEN [current_date |-> date, has_session |-> FALSE,
                    is_ready |-> (s.is_ready
                                   \/ (s.current_date # NoDate /\ s.has_session))]
              ELSE s
    IN  IF tod < session_start \/ tod >= session_end THEN s1
        ELSE [s1 EXCEPT !.has_session = TRUE]

\* ======================================================= CandlePatternDetector
\* The stored bars are carried only by their number; the flags the pattern
\* checks derive from their shape are an input of OnData.
cp_new == [len |-> 0, any_bullish |-> FALSE, any_bearish |-> FALSE]

cp_update(s, flags) ==
    LET n == Min(s.len + 1, candle_lookback)
    IN  IF n < 2
        THEN [len |-> n, any_bullish |-> FALSE, any_bearish |-> FALSE]
        ELSE [len |-> n, any_bullish |-> flags.any_bullish,
              any_bearish |-> flags.any_bearish]

\* ================================================= IBPOCMeanReversionStrategy
init_position_dict ==
    [is_long |-> FALSE, is_short |-> FALSE, entry_price |-> 0, stop_loss |-> 0,
     target_poc |-> 0, target_midpoint |-> 0, quantity |-> 0,
     remaining_quantity |-> 0, at_breakeven |-> FALSE, took_partial |-> FALSE,
     entry_time |-> [date |-> NoDate, tod |-> 0], setup_score |-> 0]

init_daily_stats ==
    [date |-> NoDate, trades_taken |-> 0, wins |-> 0, losses |-> 0,
     daily_pnl |-> 0, max_drawdown |-> 0]

IsOpen(p) == p.is_long \/ p.is_short

\* The engine's own mutable state while one bar is processed: the position, the
\* daily statistics and the calls made to the execution gateway on this bar.
\* The context c of a bar: [bar, date, tod, pv, ib, poc, oc, cp], the indicator
\* states being those after their update with the bar.

\* The phases with the session close moved to the end of the cash session.
determine_phase_late_close(tod) ==
    IF tod < market_open THEN "pre_market"
    ELSE IF tod < ib_end THEN "ib_formation"
    ELSE IF tod < new_entry_cutoff THEN "trading"
    ELSE IF tod < session_end THEN "eod_management"
    ELSE "closed"

determine_phase(tod) ==
    IF tod < market_open THEN "pre_market"
    ELSE IF tod < ib_end THEN "ib_formation"
    ELSE IF tod < new_entry_cutoff THEN "trading"
    ELSE IF tod < close_all_time THEN "eod_management"
    ELSE "closed"

\* A sizing without the minimum of one contract.
calculate_position_size_no_minimum(stop_distance, ib_classification, pv) ==
    IF stop_distance <= 0 THEN 0
    ELSE LET size_mult == IF ib_classification = "narrow" THEN narrow_ib_size_mult
                          ELSE IF ib_classification = "wide" THEN wide_ib_size_mult
                          ELSE medium_ib_size_mult
         IN  (pv * risk_per_trade * size_mult * UnitsPerPoint)
                \div (Pct * Pct * stop_distance * contract_multiplier)

calculate_position_size(stop_distance, ib_classification, pv) ==
    IF stop_distance <= 0 THEN 0
    ELSE LET size_mult == IF ib_classification = "narrow" THEN narrow_ib_size_mult
                          ELSE IF ib_classification = "wide" THEN wide_ib_size_mult
                          ELSE medium_ib_size_mult
             contracts == (pv * risk_per_trade * size_mult * UnitsPerPoint)
                            \div (Pct * Pct * stop_distance * contract_multiplier)
         IN  IF contracts = 0 /\ pv > min_capital THEN 1 ELSE contracts

\* A score whose time factor ends before 12:30.
calculate_setup_score_early_end(ib_classification, extension, has_confirmation, volume_declining, rr_num, rr_den, tod) ==
      (IF ib_classification \in {"medium", "wide"} THEN 2 ELSE 0)
    + 2
    + (IF /\ optimal_extension_low * extension.d <= extension.n * Pct
          /\ extension.n * Pct <= optimal_extension_high * extension.d THEN 2 ELSE 0)
    + (IF has_confirmation THEN 1 ELSE 0)
    + (IF volume_declining THEN 1 ELSE 0)
    + (IF rr_num * Pct >= rr_bonus_ratio * rr_den THEN 1 ELSE 0)
    + (IF optimal_start <= tod /\ tod < optimal_end THEN 1 ELSE 0)

calculate_setup_score(ib_classification, extension, has_confirmation, volume_declining, rr_num, rr_den, tod) ==
      (IF ib_classification \in {"medium", "wide"} THEN 2 ELSE 0)
    + 2
    + (IF /\ optimal_extension_low * extension.d <= extension.n * Pct
          /\ extension.n * Pct <= optimal_extension_high * extension.d THEN 2 ELSE 0)
    + (IF has_confirmation THEN 1 ELSE 0)
    + (IF volume_declining THEN 1 ELSE 0)
    + (IF rr_num * Pct >= rr_bonus_ratio * rr_den THEN 1 ELSE 0)
    + (IF optimal_start <= tod /\ tod <= optimal_end THEN 1 ELSE 0)

\* An entry that counts the trade before it sizes the position.
execute_entry_counting_first(e, c, direction, entry_price, stop_loss, target_poc, score) ==
    LET stop_distance == Abs(entry_price - stop_loss)
        classification == get_ib_classification(c.ib)
        quantity == calculate_position_size(stop_distance, classification, c.pv)
        e1 == [e EXCEPT !.daily_stats.trades_taken = e.daily_stats.trades_taken + 1]
    IN  IF quantity = 0 THEN e1
        ELSE [e1 EXCEPT
                !.orders = Append(e.orders,
                             [op |-> "market_order",
                              qty |-> IF direction = "long" THEN quantity ELSE -quantity,
                              tag |-> "entry"]),
                !.position =
                    [is_long |-> (direction = "long") \/ e.position.is_long,
                     is_short |-> (direction # "long") \/ e.position.is_short,
                     entry_price |-> entry_price,
                     stop_loss |-> stop_loss,
                     target_poc |-> target_poc,
                     target_midpoint |-> ib_midpoint2(c.ib) \div 2,
                     quantity |-> quantity,
                     remaining_quantity |-> quantity,
                     at_breakeven |-> FALSE,
                     took_partial |-> FALSE,
                     entry_time |-> [date |-> c.date, tod |-> c.tod],
                     setup_score |-> score]]

execute_entry(e, c, direction, entry_price, stop_loss, target_poc, score) ==
    LET stop_distance == Abs(entry_price - stop_loss)
        classification == get_ib_classification(c.ib)
        quantity == calculate_position_size(stop_distance, classification, c.pv)
    IN  IF quantity = 0 THEN e
        ELSE [e EXCEPT
                !.orders = Append(e.orders,
                             [op |-> "market_order",
                              qty |-> IF direction = "long" THEN quantity ELSE -quantity,
                              tag |-> "entry"]),
                !.position =
                    [is_long |-> (direction = "long") \/ e.position.is_long,
                     is_short |-> (direction # "long") \/ e.position.is_short,
                     entry_price |-> entry_price,
                     stop_loss |-> stop_loss,
                     target_poc |-> target_poc,
                     target_midpoint |-> ib_midpoint2(c.ib) \div 2,
                     quantity |-> quantity,
                     remaining_quantity |-> quantity,
                     at_breakeven |-> FALSE,
                     took_partial |-> FALSE,
                     entry_time |-> [date |-> c.date, tod |-> c.tod],
                     setup_score |-> score],
                !.daily_stats.trades_taken = e.daily_stats.trades_taken + 1]

\* The daily-loss gate never closing.
daily_loss_cap_hit_never(stats, pv) == FALSE

\* daily_pnl <= -(max_daily_risk * total_portfolio_value)
\* A daily cap that is always hit.
daily_loss_cap_hit_always(stats, pv) == TRUE

daily_loss_cap_hit(stats, pv) ==
    stats.daily_pnl * Pct <= -(max_daily_risk * pv * UnitsPerPoint)

\* An entry evaluation without the minimum reward:risk ratio.
check_entry_signals_any_reward(e, c) ==
    LET current_price == c.bar.close
        ibh == c.ib.ibh
        ibl == c.ib.ibl
        r == ib_range(c.ib)
        direction == IF current_price > ibh THEN "short"
                     ELSE IF current_price < ibl THEN "long"
                     ELSE "none"
        extension_amount == IF direction = "none" THEN [n |-> 0, d |-> 1]
                            ELSE get_extension_amount(c.ib, current_price, direction)
        has_confirmation == IF direction = "long" THEN c.cp.any_bullish
                            ELSE c.cp.any_bearish
        poc == c.poc.poc
        stop_distance == (r * stop_ib_multiplier) \div Pct
        entry == current_price
        stop == IF direction = "long" THEN entry - stop_distance
                ELSE entry + stop_distance
        target == poc
        profit_distance == IF direction = "long" THEN target - entry
                           ELSE entry - target
        volume_declining == IF c.ib.ib_volume > 0
                            THEN c.bar.volume * 60 < c.ib.ib_volume
                            ELSE TRUE
        score == calculate_setup_score(get_ib_classification(c.ib), extension_amount,
                                       has_confirmation, volume_declining,
                                       profit_distance, stop_distance, c.tod)
    IN  IF ~c.ib.is_ready \/ ~c.poc.is_ready THEN e
        ELSE IF ~c.ib.ib_complete THEN e
        ELSE IF is_trend_day_likely(c.oc) THEN e
        ELSE IF daily_loss_cap_hit(e.daily_stats, c.pv) THEN e
        ELSE IF ibh = NoPrice \/ ibl = NoPrice \/ r = NoPrice \/ r = 0 THEN e
        ELSE IF direction = "none" \/ extension_amount.d = 0 \/ extension_amount.n = 0
             THEN e
        ELSE IF \/ extension_amount.n * Pct < min_extension * extension_amount.d
                \/ extension_amount.n * Pct > max_extension * extension_amount.d
             THEN e
        ELSE IF ~has_confirmation THEN e
        ELSE IF poc = NoPrice THEN e
        ELSE IF profit_distance <= 0 THEN e
        ELSE IF score < min_score_to_trade THEN e
        ELSE execute_entry(e, c, direction, entry, stop, target, score)

check_entry_signals(e, c) ==
    LET current_price == c.bar.close
        ibh == c.ib.ibh
        ibl == c.ib.ibl
        r == ib_range(c.ib)
        direction == IF current_price > ibh THEN "short"
                     ELSE IF current_price < ibl THEN "long"
                     ELSE "none"
        extension_amount == IF direction = "none" THEN [n |-> 0, d |-> 1]
                            ELSE get_extension_amount(c.ib, current_price, direction)
        has_confirmation == IF direction = "long" THEN c.cp.any_bullish
                            ELSE c.cp.any_bearish
        poc == c.poc.poc
        stop_distance == (r * stop_ib_multiplier) \div Pct
        entry == current_price
        stop == IF direction = "long" THEN entry - stop_distance
                ELSE entry + stop_distance
        target == poc
        profit_distance == IF direction = "long" THEN target - entry
                           ELSE entry - target
        volume_declining == IF c.ib.ib_volume > 0
                            THEN c.bar.volume * 60 < c.ib.ib_volume
                            ELSE TRUE
        score == calculate_setup_score(get_ib_classification(c.ib), extension_amount,
                                       has_confirmation, volume_declining,
                                       profit_distance, stop_distance, c.tod)
    IN  IF ~c.ib.is_ready \/ ~c.poc.is_ready THEN e
        ELSE IF ~c.ib.ib_complete THEN e
        ELSE IF is_trend_day_likely(c.oc) THEN e
        ELSE IF daily_loss_cap_hit(e.daily_stats, c.pv) THEN e
        ELSE IF ibh = NoPrice \/ ibl = NoPrice \/ r = NoPrice \/ r = 0 THEN e
        ELSE IF direction = "none" \/ extension_amount.d = 0 \/ extension_amount.n = 0
             THEN e
        ELSE IF \/ extension_amount.n * Pct < min_extension * extension_amount.d
                \/ extension_amount.n * Pct > max_extension * extension_amount.d
             THEN e
        ELSE IF ~has_confirmation THEN e
        ELSE IF poc = NoPrice THEN e
        ELSE IF profit_distance <= 0 THEN e
        ELSE IF profit_distance * Pct < min_rr_ratio * stop_distance THEN e
        ELSE IF score < min_score_to_trade THEN e
        ELSE execute_entry(e, c, direction, entry, stop, target, score)

close_position(e, c, reason) ==
    LET current_price == c.bar.close
        pnl == IF e.position.is_long
               THEN (current_price - e.position.entry_price)
                      * e.position.quantity * contract_multiplier
               ELSE (e.position.entry_price - current_price)
                      * e.position.quantity * contract_multiplier
    IN  [e EXCEPT
           !.orders = Append(e.orders, [op |-> "liquidate", qty |-> 0, tag |-> reason]),
           !.daily_stats.daily_pnl = e.daily_stats.daily_pnl + pnl,
           !.daily_stats.wins = IF pnl > 0 THEN e.daily_stats.wins + 1
                                ELSE e.daily_stats.wins,
           !.daily_stats.losses = IF pnl > 0 THEN e.daily_stats.losses
                                  ELSE e.daily_stats.losses + 1,
           !.position = init_position_dict]

\* End-of-day management tightening from the first bar of the phase.
apply_eod_management_ungated(e, c, direction) ==
    IF direction = "long"
    THEN [e EXCEPT !.position.stop_loss =
             c.bar.close - ((c.bar.close - @) * eod_tighten_pct) \div Pct]
    ELSE [e EXCEPT !.position.stop_loss =
             c.bar.close + ((@ - c.bar.close) * eod_tighten_pct) \div Pct]

\* End-of-day management moving the stop away from the price by half its distance.
apply_eod_management_widening(e, c, direction) ==
    IF c.tod >= tighten_stops_time
    THEN IF direction = "long"
         THEN [e EXCEPT !.position.stop_loss =
                  @ - ((c.bar.close - @) * eod_tighten_pct) \div Pct]
         ELSE [e EXCEPT !.position.stop_loss =
                  @ + ((@ - c.bar.close) * eod_tighten_pct) \div Pct]
    ELSE e

apply_eod_management(e, c, direction) ==
    IF c.tod >= tighten_stops_time
    THEN IF direction = "long"
         THEN LET current_stop_dist == c.bar.close - e.position.stop_loss
                  new_stop == c.bar.close - (current_stop_dist * eod_tighten_pct) \div Pct
              IN  IF new_stop > e.position.stop_loss
                  THEN [e EXCEPT !.position.stop_loss = new_stop]
                  ELSE e
         ELSE LET current_stop_dist == e.position.stop_loss - c.bar.close
                  new_stop == c.bar.close + (current_stop_dist * eod_tighten_pct) \div Pct
              IN  IF new_stop < e.position.stop_loss
                  THEN [e EXCEPT !.position.stop_loss = new_stop]
                  ELSE e
    ELSE e

\* The steps of _manage_long_position after the stop-loss check.
long_breakeven(e, current_price) ==
    LET profit == current_price - e.position.entry_price
        stop_distance == e.position.entry_price - e.position.stop_loss
    IN  IF ~e.position.at_breakeven /\ profit >= stop_distance
        THEN [e EXCEPT !.position.stop_loss = e.position.entry_price,
                       !.position.at_breakeven = TRUE]
        ELSE e

\* The partial exit of a long selling the whole remaining quantity.
long_partial_whole(e, current_price) ==
    LET partial_qty == e.position.remaining_quantity
    IN  IF ~e.position.took_partial /\ current_price >= e.position.target_midpoint
           /\ partial_qty > 0
        THEN [e EXCEPT
                !.orders = Append(e.orders, [op |-> "market_order", qty |-> -partial_qty,
                                             tag |-> "partial"]),
                !.position.remaining_quantity =
                    e.position.remaining_quantity - partial_qty,
                !.position.took_partial = TRUE]
        ELSE e

long_partial(e, current_price) ==
    LET partial_qty == e.position.remaining_quantity \div 2
    IN  IF ~e.position.took_partial /\ current_price >= e.position.target_midpoint
           /\ partial_qty > 0
        THEN [e EXCEPT
                !.orders = Append(e.orders, [op |-> "market_order", qty |-> -partial_qty,
                                             tag |-> "partial"]),
                !.position.remaining_quantity =
                    e.position.remaining_quantity - partial_qty,
                !.position.took_partial = TRUE]
        ELSE e

manage_long_position(e, c, eod_mode) ==
    LET current_price == c.bar.close
    IN  IF current_price <= e.position.stop_loss
        THEN close_position(e, c, "Stop loss hit")
        ELSE LET e1 == long_breakeven(e, current_price)
                 e2 == long_partial(e1, current_price)
             IN  IF current_price >= e2.position.target_poc
                 THEN close_position(e2, c, "POC target hit")
                 ELSE IF eod_mode THEN apply_eod_management(e2, c, "long")
                 ELSE e2

\* The breakeven move of a short stopping halfway between stop and entry.
short_breakeven_halfway(e, current_price) ==
    LET profit == e.position.entry_price - current_price
        stop_distance == e.position.stop_loss - e.position.entry_price
    IN  IF ~e.position.at_breakeven /\ profit >= stop_distance
        THEN [e EXCEPT !.position.stop_loss = e.position.entry_price + stop_distance \div 2,
                       !.position.at_breakeven = TRUE]
        ELSE e

short_breakeven(e, current_price) ==
    LET profit == e.position.entry_price - current_price
        stop_distance == e.position.stop_loss - e.position.entry_price
    IN  IF ~e.position.at_breakeven /\ profit >= stop_distance
        THEN [e EXCEPT !.position.stop_loss = e.position.entry_price,
                       !.position.at_breakeven = TRUE]
        ELSE e

\* The partial exit of a short that does not record that it was taken.
short_partial_unrecorded(e, current_price) ==
    LET partial_qty == e.position.remaining_quantity \div 2
    IN  IF ~e.position.took_partial /\ current_price <= e.position.target_midpoint
           /\ partial_qty > 0
        THEN [e EXCEPT
                !.orders = Append(e.orders, [op |-> "market_order", qty |-> partial_qty,
                                             tag |-> "partial"]),
                !.position.remaining_quantity =
                    e.position.remaining_quantity - partial_qty]
        ELSE e

short_partial(e, current_price) ==
    LET partial_qty == e.position.remaining_quantity \div 2
    IN  IF ~e.position.took_partial /\ current_price <= e.position.target_midpoint
           /\ partial_qty > 0
        THEN [e EXCEPT
                !.orders = Append(e.orders, [op |-> "market_order", qty |-> partial_qty,
                                             tag |-> "partial"]),
                !.position.remaining_quantity =
                    e.position.remaining_quantity - partial_qty,
                !.position.took_partial = TRUE]
        ELSE e

manage_short_position(e, c, eod_mode) ==
    LET current_price == c.bar.close
    IN  IF current_price >= e.position.stop_loss
        THEN close_position(e, c, "Stop loss hit")
        ELSE LET e1 == short_breakeven(e, current_price)
                 e2 == short_partial(e1, current_price)
             IN  IF current_price <= e2.position.target_poc
                 THEN close_position(e2, c, "POC target hit")
                 ELSE IF eod_mode THEN apply_eod_management(e2, c, "short")
                 ELSE e2

\* poc_data.get('poc') is truthy: neither None nor 0.
manage_position(e, c, eod_mode) ==
    LET e1 == IF c.poc.poc # NoPrice /\ c.poc.poc # 0
              THEN [e EXCEPT !.position.target_poc = c.poc.poc]
              ELSE e
    IN  IF e1.position.is_long THEN manage_long_position(e1, c, eod_mode)
        ELSE IF e1.position.is_short THEN manage_short_position(e1, c, eod_mode)
        ELSE e1

\* Entry evaluation without the check for an open position.
handle_trading_phase_no_flat_check(e, c) == check_entry_signals(e, c)

handle_trading_phase(e, c) ==
    IF e.position.is_long \/ e.position.is_short
    THEN manage_position(e, c, FALSE)
    ELSE check_entry_signals(e, c)

handle_eod_management(e, c) ==
    IF e.position.is_long \/ e.position.is_short
    THEN manage_position(e, c, TRUE)
    ELSE e

\* The closed phase leaving the position alone.
handle_closed_no_exit(e, c) == e

handle_closed(e, c) ==
    IF e.position.is_long \/ e.position.is_short
    THEN close_position(e, c, "Session close (3:45 PM)")
    ELSE e

\* _handle_pre_market up to its debug call: the daily reset.
handle_pre_market(e, c) ==
    IF e.daily_stats.date # c.date
    THEN [e EXCEPT !.daily_stats = [init_daily_stats EXCEPT !.date = c.date]]
    ELSE e

\* The f-string of _handle_pre_market's debug call carries the format spec
\* ".2f if prior_day_data['prior_poc'] else 'N/A'": formatting raises
\* (ValueError for a float, TypeError for None) whenever the call is reached.
pre_market_log_raises(pd, logged_prior_day) ==
    pd.is_ready /\ ~logged_prior_day

\* The phase-specific logic of on_data.
phase_logic(phase, e, c) ==
    IF phase = "pre_market" THEN handle_pre_market(e, c)
    ELSE IF phase = "ib_formation" THEN e
    ELSE IF phase = "trading" THEN handle_trading_phase(e, c)
    ELSE IF phase = "eod_management" THEN handle_eod_management(e, c)
    ELSE handle_closed(e, c)

\* ============================================================== state machine
VARIABLES
    now,                \* self.time of the last slice delivered: [date, tod]
    is_warming_up,      \* QCAlgorithm.is_warming_up
    symbol,             \* self._symbol ("none" until the future is discovered)
    portfolio_value,    \* self.portfolio.total_portfolio_value, held at the starting cash
    bar,                \* data.bars[self._symbol] of the last slice processed
    session_poc,        \* self._session_poc
    ib_indicator,       \* self._ib_indicator
    open_classifier,    \* self._open_classifier
    prior_day,          \* self._prior_day
    candle_patterns,    \* self._candle_patterns
    current_phase,      \* self._current_phase
    position,           \* self._position
    daily_stats,        \* self._daily_stats
    logged_prior_day,   \* self._logged_prior_day
    logged_ib,          \* self._logged_ib
    orders,             \* gateway calls made while processing the last slice
    runtime_error,      \* on_data raised: the platform has stopped the algorithm
    initial_stop_loss,  \* history: the stop _execute_entry set for the open trade
    returned            \* value returned by the last direct call of a pure method

vars == <<now, is_warming_up, symbol, portfolio_value, bar, session_poc,
          ib_indicator, open_classifier, prior_day, candle_patterns,
          current_phase, position, daily_stats, logged_prior_day, logged_ib,
          orders, runtime_error, initial_stop_loss, returned>>

indicator_vars == <<session_poc, ib_indicator, open_classifier, prior_day,
                    candle_patterns>>

engine_vars == <<current_phase, position, daily_stats, logged_prior_day,
                 logged_ib, orders, runtime_error, initial_stop_loss, returned>>

\* No method has been called directly.
NoCall == [method |-> "none"]

NoBar == [high |-> NoPrice, low |-> NoPrice, close |-> NoPrice, volume |-> 0]

starting_cash == 100000

\* initialize()
Init ==
    /\ now = [date |-> NoDate, tod |-> 0]
    /\ is_warming_up = TRUE
    /\ symbol = "none"
    /\ portfolio_value = starting_cash
    /\ bar = NoBar
    /\ session_poc = poc_new
    /\ ib_indicator = ib_new
    /\ open_classifier = oc_new
    /\ prior_day = pd_new
    /\ candle_patterns = cp_new
    /\ current_phase = "pre_market"
    /\ position = init_position_dict
    /\ daily_stats = init_daily_stats
    /\ logged_prior_day = FALSE
    /\ logged_ib = FALSE
    /\ orders = <<>>
    /\ runtime_error = FALSE
    /\ initial_stop_loss = NoPrice
    /\ returned = NoCall

\* Timestamps of the slices that can follow the last one: the next sampled time
\* of the same date, the open of the next trading date, or (after a Friday)
\* the Sunday evening.
next_trading_date(date) ==
    IF weekday(date) = 4 THEN date + 3
    ELSE IF weekday(date) = 5 THEN date + 2
    ELSE date + 1

NextStampsOf(times) ==
    LET later == { t \in times : t > now.tod }
        same == IF now.date = NoDate \/ weekday(now.date) >= 5 THEN {}
                ELSE { [date |-> now.date, tod |-> t] :
                         t \in { u \in later : \A v \in later : u <= v } }
        opens == IF now.date = NoDate \/ now.tod \in LastTimes \/ weekday(now.date) >= 5
                 THEN { [date |-> next_trading_date(now.date), tod |-> t] :
                          t \in OpenTimes }
                 ELSE {}
        sunday == IF now.date # NoDate /\ weekday(now.date) = 4
                  THEN { [date |-> now.date + 2, tod |-> SundayTime] }
                  ELSE {}
    IN  { st \in same \cup opens \cup sunday : st.date <= MaxDate }

NextStamps == NextStampsOf(SessionTimes)

\* on_securities_changed: the future is discovered, the indicators are built.
OnSecuritiesChanged ==
    /\ ~runtime_error
    /\ symbol = "none"
    /\ symbol' = "MES"
    /\ session_poc' = poc_new
    /\ ib_indicator' = ib_new
    /\ open_classifier' = oc_new
    /\ prior_day' = pd_new
    /\ candle_patterns' = cp_new
    /\ UNCHANGED <<now, is_warming_up, portfolio_value, bar, engine_vars>>

\* The platform ends the warm-up period.
EndWarmUp ==
    /\ ~runtime_error
    /\ is_warming_up
    /\ is_warming_up' = FALSE
    /\ UNCHANGED <<now, symbol, portfolio_value, bar, indicator_vars, engine_vars>>

\* on_data returning at one of its guard clauses: warming up, no symbol yet,
\* or a weekend timestamp.
OnDataSkipped ==
    /\ ~runtime_error
    /\ \E st \in NextStamps :
          /\ is_warming_up \/ symbol = "none" \/ weekday(st.date) >= 5
          /\ now' = st
    /\ UNCHANGED <<is_warming_up, symbol, portfolio_value, bar, indicator_vars,
                   engine_vars>>

\* on_data processing the bar of a weekday slice drawn from one of the streams.
OnDataFrom(stream) ==
    /\ ~runtime_error
    /\ ~is_warming_up
    /\ symbol # "none"
    /\ \E st \in NextStampsOf(StreamTimes(stream)) :
          /\ weekday(st.date) < 5
          /\ \E ev \in StreamEvents(stream, st.tod) :
                LET b == ev.bar
                    phase == determine_phase(st.tod)
                    poc1 == poc_update(session_poc, b, st.date, st.tod,
                               calculate_poc(session_poc, b, st.date, st.tod, ev.heavy))
                    ib1 == ib_update(ib_indicator, b, st.date, st.tod)
                    oc1 == oc_update(open_classifier, st.date, st.tod, ev.open_type)
                    pd1 == pd_update(prior_day, st.date, st.tod)
                    cp1 == cp_update(candle_patterns, ev.flags)
                    c == [bar |-> b, date |-> st.date, tod |-> st.tod,
                          pv |-> portfolio_value, ib |-> ib1, poc |-> poc1,
                          oc |-> oc1, cp |-> cp1]
                    e0 == [position |-> position, daily_stats |-> daily_stats,
                           orders |-> <<>>]
                    e1 == phase_logic(phase, e0, c)
                    new_day == phase = "pre_market" /\ daily_stats.date # st.date
                IN  /\ now' = st
                    /\ bar' = b
                    /\ current_phase' = phase
                    /\ session_poc' = poc1
                    /\ ib_indicator' = ib1
                    /\ open_classifier' = oc1
                    /\ prior_day' = pd1
                    /\ candle_patterns' = cp1
                    /\ position' = e1.position
                    /\ daily_stats' = e1.daily_stats
                    /\ orders' = e1.orders
                    /\ logged_prior_day' = IF new_day THEN FALSE ELSE logged_prior_day
                    /\ logged_ib' = IF new_day THEN FALSE
                                    ELSE IF phase = "ib_formation" /\ ib1.ib_complete
                                    THEN TRUE ELSE logged_ib
                    /\ initial_stop_loss' =
                          IF ~IsOpen(e1.position) THEN NoPrice
                          ELSE IF ~IsOpen(position) THEN e1.position.stop_loss
                          ELSE initial_stop_loss
                    /\ runtime_error' =
                          (phase = "pre_market"
                             /\ pre_market_log_raises(pd1, logged_prior_day'))
    /\ UNCHANGED <<is_warming_up, symbol, portfolio_value, returned>>

OnData == OnDataFrom("full")

OnDataScripted == OnDataFrom("scripted")

\* The algorithm from its construction, over the scripted stream.
NextCold ==
    \/ OnSecuritiesChanged
    \/ EndWarmUp
    \/ OnDataSkipped
    \/ OnDataScripted

SpecCold == Init /\ [][NextCold]_vars

\* The state at the close (15:45) of the first Friday, after five sessions of
\* the scripted stream whose initial balances all had the range r: four
\* ranges are in the rolling history and the fifth awaits the next date.
WarmAfter(r) ==
    /\ now = [date |-> 5, tod |-> close_all_time]
    /\ is_warming_up = FALSE
    /\ symbol = "MES"
    /\ bar = [high |-> T(10), low |-> T(10), close |-> T(10), volume |-> 100]
    /\ session_poc = [session_date |-> 5, keys |-> PocLevels, poc |-> T(10),
                      is_ready |-> TRUE, bar_count |-> 10]
    /\ ib_indicator = [current_date |-> 5, ibh |-> T(10) + r \div 2,
                       ibl |-> T(10) - r \div 2, ib_volume |-> 400,
                       ib_complete |-> TRUE, ib_ranges |-> <<r, r, r, r>>,
                       is_ready |-> FALSE]
    /\ open_classifier = [current_date |-> 5, classification |-> "open_auction",
                          classification_complete |-> TRUE, has_bars |-> TRUE]
    /\ prior_day = [current_date |-> 5, has_session |-> TRUE, is_ready |-> TRUE]
    /\ candle_patterns = [len |-> candle_lookback, any_bullish |-> FALSE,
                          any_bearish |-> FALSE]
    /\ current_phase = "closed"
    /\ position = init_position_dict
    /\ daily_stats = init_daily_stats
    /\ logged_prior_day = FALSE
    /\ logged_ib = FALSE
    /\ orders = <<>>
    /\ runtime_error = FALSE
    /\ initial_stop_loss = NoPrice
    /\ returned = NoCall

InitWarm ==
    /\ portfolio_value = starting_cash
    /\ WarmAfter(T(4)) \/ WarmAfter(T(8))

Next ==
    \/ OnDataSkipped
    \/ OnData

\* The algorithm from the close of its fifth session, over the full stream.
Spec == InitWarm /\ [][Next]_vars

\* ------------------------------------------------ one session, entry by entry
\* Portfolio values at which entries are sized.
PortfolioValues == {2000, 20000, starting_cash}

\* A rolling history of n initial balances of r index points each.
History(r, n) == [i \in 1..n |-> r * UnitsPerPoint]

\* The IB tracker after the last 09:30-10:30 bar of the date.
EntryIB(ibh, ibl, ranges) ==
    [current_date |-> MaxDate, ibh |-> ibh, ibl |-> ibl, ib_volume |-> 6000,
     ib_complete |-> FALSE, ib_ranges |-> ranges, is_ready |-> FALSE]

\* Initial balances of 4490.00-4500.00 that the history makes medium, narrow
\* and wide, one whose history is too short to be ready, and one of range 0.
EntryIBs ==
    { EntryIB(Pt(4500, 0), Pt(4490, 0), History(10, 5)),
      EntryIB(Pt(4500, 0), Pt(4490, 0), History(20, 5)),
      EntryIB(Pt(4500, 0), Pt(4490, 0), History(5, 5)),
      EntryIB(Pt(4500, 0), Pt(4490, 0), History(10, 3)),
      EntryIB(Pt(4495, 0), Pt(4495, 0), History(10, 5)) }

\* The algorithm at 10:15 of a date, flat, its first four session bars
\* processed, for each portfolio value, initial balance and open type.
InitSession ==
    /\ now = [date |-> MaxDate, tod |-> 615]
    /\ is_warming_up = FALSE
    /\ symbol = "MES"
    /\ portfolio_value \in PortfolioValues
    /\ ib_indicator \in EntryIBs
    /\ bar = [high |-> ib_indicator.ibh, low |-> ib_indicator.ibl,
              close |-> ib_indicator.ibh, volume |-> 1500]
    /\ session_poc =
          [session_date |-> MaxDate,
           keys |-> { l \in EntryPocLevels :
                        ib_indicator.ibl <= l /\ l <= ib_indicator.ibh },
           poc |-> ib_indicator.ibh, is_ready |-> FALSE, bar_count |-> 4]
    /\ open_classifier \in
          { [current_date |-> MaxDate, classification |-> ot,
             classification_complete |-> TRUE, has_bars |-> TRUE] :
               ot \in {"open_auction", "open_drive"} }
    /\ prior_day = [current_date |-> MaxDate, has_session |-> TRUE, is_ready |-> TRUE]
    /\ candle_patterns = [len |-> candle_lookback, any_bullish |-> FALSE,
                          any_bearish |-> FALSE]
    /\ current_phase = "ib_formation"
    /\ position = init_position_dict
    /\ daily_stats = init_daily_stats
    /\ logged_prior_day = FALSE
    /\ logged_ib = FALSE
    /\ orders = <<>>
    /\ runtime_error = FALSE
    /\ initial_stop_loss = NoPrice
    /\ returned = NoCall

\* The algorithm as constructed, for each portfolio value: the object on which
\* a pure method is called directly, one call per object.
InitDirect ==
    /\ now = [date |-> NoDate, tod |-> 0]
    /\ is_warming_up = TRUE
    /\ symbol = "none"
    /\ portfolio_value \in PortfolioValues
    /\ bar = NoBar
    /\ session_poc = poc_new
    /\ ib_indicator = ib_new
    /\ open_classifier = oc_new
    /\ prior_day = pd_new
    /\ candle_patterns = cp_new
    /\ current_phase = "pre_market"
    /\ position = init_position_dict
    /\ daily_stats = init_daily_stats
    /\ logged_prior_day = FALSE
    /\ logged_ib = FALSE
    /\ orders = <<>>
    /\ runtime_error = FALSE
    /\ initial_stop_loss = NoPrice
    /\ returned = NoCall

\* Arguments of the direct calls. Stop distances: -1, 0, 0.25, 5, 20, 50, 100
\* and 250 index points.
StopDistances ==
    { -UnitsPerPoint, 0, TickSize, 5 * UnitsPerPoint, 20 * UnitsPerPoint,
      50 * UnitsPerPoint, 100 * UnitsPerPoint, 250 * UnitsPerPoint }

Classifications == {"narrow", "medium", "wide", NoClass}

\* Extensions of 0.49, 0.50, 1.00 and 1.01 IB ranges.
Extensions == { [n |-> x, d |-> Pct] : x \in {49, 50, 100, 101} }

\* Reward:risk ratios of 2.49, 2.50 and 3.00.
RewardRisks == { [n |-> x, d |-> Pct] : x \in {249, 250, 300} }

\* 10:29, 10:30, 12:30 and 12:31.
ScoreTimes == {629, 630, 750, 751}

\* _calculate_position_size(stop_distance, ib_classification) called directly.
CalculatePositionSize ==
    /\ symbol = "none"
    /\ returned = NoCall
    /\ \E sd \in StopDistances, cls \in Classifications :
          returned' = [method |-> "_calculate_position_size",
                       stop_distance |-> sd, ib_classification |-> cls,
                       result |-> calculate_position_size(sd, cls, portfolio_value)]
    /\ UNCHANGED <<now, is_warming_up, symbol, portfolio_value, bar, indicator_vars,
                   current_phase, position, daily_stats, logged_prior_day,
                   logged_ib, orders, runtime_error, initial_stop_loss>>

\* _calculate_setup_score(ib_data, extension, has_confirmation,
\* volume_declining, rr_ratio) called directly at time of day tod.
CalculateSetupScore ==
    /\ symbol = "none"
    /\ returned = NoCall
    /\ \E cls \in Classifications, ext \in Extensions, conf \in BOOLEAN,
          vol \in BOOLEAN, rr \in RewardRisks, tod \in ScoreTimes :
          returned' = [method |-> "_calculate_setup_score",
                       ib_classification |-> cls, extension |-> ext,
                       has_confirmation |-> conf, volume_declining |-> vol,
                       rr_ratio |-> rr, tod |-> tod,
                       result |-> calculate_setup_score(cls, ext, conf, vol,
                                                        rr.n, rr.d, tod)]
    /\ UNCHANGED <<now, is_warming_up, symbol, portfolio_value, bar, indicator_vars,
                   current_phase, position, daily_stats, logged_prior_day,
                   logged_ib, orders, runtime_error, initial_stop_loss>>

OnDataEntry == OnDataFrom("entry")

InitEntry == InitSession \/ InitDirect

NextEntry ==
    \/ OnDataEntry
    \/ CalculatePositionSize
    \/ CalculateSetupScore

\* One session from 10:15 over the stream around the 4490.00-4500.00 initial
\* balance, and the direct calls of the sizing and scoring methods.
SpecEntry == InitEntry /\ [][NextEntry]_vars

\* ===================================================== the volume profile
\* SessionPOCIndicator with its histogram. Python floats are binary floating
\* point numbers rounded to nearest, ties to even; here they carry MantissaBits
\* significant bits and are counted in units of 1/FloatUnit. On bars of up to
\* four buckets the 11-bit results deviate from the exact ones in the same
\* direction and by the same number of units in the last place as the code's
\* 53-bit doubles (the binary expansions of 1/3, 1/7, ... repeat with a period
\* that divides 53 - 11).
MantissaBits == 11

RECURSIVE Pow2(_)
Pow2(n) == IF n = 0 THEN 1 ELSE 2 * Pow2(n - 1)

FloatUnit == Pow2(13)

\* The least float with a full mantissa, in units.
MantissaLow == Pow2(MantissaBits - 1)

\* The spacing of the floats around q units.
RECURSIVE float_step(_)
float_step(q) == IF q < 2 * MantissaLow THEN 1 ELSE 2 * float_step(q \div 2)

\* The float nearest to the rational n / d (in units): the spacing of the
\* floats around it, then the multiple of the spacing, half-way cases to the
\* even one.
float_round(n, d) ==
    LET unit == d * float_step(n \div d)
        m == n \div unit
        rest == n - m * unit
        up == 2 * rest > unit \/ (2 * rest = unit /\ m % 2 = 1)
    IN  (IF up THEN m + 1 ELSE m) * (unit \div d)

\* The result of one floating-point operation whose exact value is n / d; the
\* singleton sets here and below bind an intermediate value once.
fl(n, d) == CHOOSE r \in { float_round(x, y) : x \in {n}, y \in {d} } : TRUE

profile_new ==
    [session_date |-> NoDate, volume_profile |-> <<>>, total_volume |-> 0,
     poc |-> NoPrice, poc_volume |-> 0, vah |-> NoPrice, val |-> NoPrice,
     is_ready |-> FALSE, bar_count |-> 0]

\* A reset that keeps the histogram of the finished session.
profile_reset_keeping_histogram(s) ==
    [s EXCEPT !.poc = NoPrice, !.poc_volume = 0, !.vah = NoPrice, !.val = NoPrice,
              !.is_ready = FALSE, !.bar_count = 0]

profile_reset(s) ==
    [s EXCEPT !.volume_profile = <<>>, !.total_volume = 0, !.poc = NoPrice,
              !.poc_volume = 0, !.vah = NoPrice, !.val = NoPrice,
              !.is_ready = FALSE, !.bar_count = 0]

\* dict.get(price, 0) on the histogram, a sequence of [price, volume] in the
\* order in which the keys were inserted.
profile_get(vp, price) ==
    IF \E i \in 1..Len(vp) : vp[i].price = price
    THEN vp[CHOOSE i \in 1..Len(vp) : vp[i].price = price].volume
    ELSE 0

\* dict[price] = volume: an existing key keeps its place, a new key goes last.
profile_put(vp, price, volume) ==
    IF \E i \in 1..Len(vp) : vp[i].price = price
    THEN [i \in 1..Len(vp) |-> IF vp[i].price = price
                               THEN [price |-> price, volume |-> volume]
                               ELSE vp[i]]
    ELSE Append(vp, [price |-> price, volume |-> volume])

\* The buckets from the bar's low to its high, ascending.
price_levels(b) ==
    LET low_bucket == round_to_tick(b.low)
        high_bucket == round_to_tick(b.high)
    IN  IF high_bucket < low_bucket THEN <<>>
        ELSE [i \in 1..((high_bucket - low_bucket) \div TickSize + 1) |->
                low_bucket + (i - 1) * TickSize]

\* round((high + low + close) / 3 / tick_size) * tick_size; a third of a whole
\* number of ticks is never half-way between two ticks.
typical_bucket(b) ==
    ((2 * (b.high + b.low + b.close) + 3 * TickSize) \div (6 * TickSize)) * TickSize

\* 1.0 / (1.0 + distance / tick_size)
weight(price, typical) == fl(FloatUnit, 1 + Abs(price - typical) \div TickSize)

\* total_weight += weight, level by level
RECURSIVE total_weight(_, _)
total_weight(levels, typical) ==
    IF levels = <<>> THEN 0
    ELSE CHOOSE r \in
           { fl(sum + weight(levels[Len(levels)], typical), 1) :
               sum \in { total_weight(SubSeq(levels, 1, Len(levels) - 1), typical) } } :
           TRUE

\* A share that is not normalised by the total weight.
volume_share_unnormalised(w, tw, volume) == fl(w * volume, 1)

\* (weights[price] / total_weight) * bar.Volume
volume_share(w, tw, volume) == fl(fl(w * FloatUnit, tw) * volume, 1)

RECURSIVE assign_volume(_, _, _, _, _)
assign_volume(vp, levels, typical, tw, volume) ==
    IF levels = <<>> THEN vp
    ELSE LET price == Head(levels)
             share == volume_share(weight(price, typical), tw, volume)
         IN  CHOOSE r \in
               { assign_volume(next, Tail(levels), typical, tw, volume) :
                   next \in { profile_put(vp, price,
                                          fl(profile_get(vp, price) + share, 1)) } } :
               TRUE

profile_distribute_bar_volume(s, b) ==
    LET levels == price_levels(b)
        typical == typical_bucket(b)
    IN  IF b.volume <= 0 \/ levels = <<>> THEN s
        ELSE CHOOSE r \in
               { [s EXCEPT
                    !.volume_profile =
                        assign_volume(s.volume_profile, levels, typical, tw, b.volume),
                    !.total_volume = s.total_volume + b.volume] :
                   tw \in { total_weight(levels, typical) } } :
               TRUE

\* The running maximum of _calculate_poc over the first n items of the
\* histogram: a later bucket replaces an earlier one only with more volume.
RECURSIVE poc_scan(_, _)
poc_scan(vp, n) ==
    IF n = 0 THEN [price |-> NoPrice, volume |-> 0]
    ELSE CHOOSE r \in
           { IF vp[n].volume > best.volume THEN vp[n] ELSE best :
               best \in { poc_scan(vp, n - 1) } } :
           TRUE

profile_calculate_poc(s) ==
    IF s.volume_profile = <<>> THEN s
    ELSE CHOOSE r \in
           { [s EXCEPT !.poc = best.price, !.poc_volume = best.volume] :
               best \in { poc_scan(s.volume_profile, Len(s.volume_profile)) } } :
           TRUE

value_area_pct == 70

\* sorted(self._volume_profile.keys()), each key with its volume
sorted_prices(vp) == SortSeq(vp, LAMBDA a, b : a.price < b.price)

\* An expansion that goes down when the two adjacent volumes are equal.
RECURSIVE value_area_expand_down_on_tie(_, _, _, _, _)
value_area_expand_down_on_tie(sp, low_index, high_index, accumulated_volume, target_volume) ==
    LET can_go_up == high_index + 1 <= Len(sp)
        can_go_down == low_index - 1 >= 1
        volume_up == IF can_go_up THEN sp[high_index + 1].volume ELSE 0
        volume_down == IF can_go_down THEN sp[low_index - 1].volume ELSE 0
    IN  IF accumulated_volume >= target_volume \/ (~can_go_up /\ ~can_go_down)
        THEN [low_index |-> low_index, high_index |-> high_index]
        ELSE IF volume_down >= volume_up /\ can_go_down
        THEN value_area_expand_down_on_tie(sp, low_index - 1, high_index,
                               fl(accumulated_volume + volume_down, 1), target_volume)
        ELSE value_area_expand_down_on_tie(sp, low_index, high_index + 1,
                               fl(accumulated_volume + volume_up, 1), target_volume)

\* The while loop of _calculate_value_area over the sorted histogram sp: one
\* bucket is added above or below, the larger first and the upper one on a
\* tie, until the accumulated volume reaches the target or both ends are hit.
RECURSIVE value_area_expand(_, _, _, _, _)
value_area_expand(sp, low_index, high_index, accumulated_volume, target_volume) ==
    LET can_go_up == high_index + 1 <= Len(sp)
        can_go_down == low_index - 1 >= 1
        volume_up == IF can_go_up THEN sp[high_index + 1].volume ELSE 0
        volume_down == IF can_go_down THEN sp[low_index - 1].volume ELSE 0
    IN  IF accumulated_volume >= target_volume \/ (~can_go_up /\ ~can_go_down)
        THEN [low_index |-> low_index, high_index |-> high_index]
        ELSE IF volume_up >= volume_down /\ can_go_up
        THEN value_area_expand(sp, low_index, high_index + 1,
                               fl(accumulated_volume + volume_up, 1), target_volume)
        ELSE IF can_go_down
        THEN value_area_expand(sp, low_index - 1, high_index,
                               fl(accumulated_volume + volume_down, 1), target_volume)
        ELSE value_area_expand(sp, low_index, high_index + 1,
                               fl(accumulated_volume + volume_up, 1), target_volume)

profile_calculate_value_area(s) ==
    IF s.volume_profile = <<>> \/ s.total_volume = 0 \/ s.poc = NoPrice THEN s
    ELSE LET sp == sorted_prices(s.volume_profile)
             target_volume == fl(s.total_volume * fl(value_area_pct * FloatUnit, Pct), 1)
         IN  IF \A i \in 1..Len(sp) : sp[i].price # s.poc
             THEN [s EXCEPT !.vah = sp[Len(sp)].price, !.val = sp[1].price]
             ELSE CHOOSE r \in
                    { [s EXCEPT !.vah = sp[area.high_index].price,
                                !.val = sp[area.low_index].price] :
                        area \in { value_area_expand(
                                     sp,
                                     CHOOSE i \in 1..Len(sp) : sp[i].price = s.poc,
                                     CHOOSE i \in 1..Len(sp) : sp[i].price = s.poc,
                                     profile_get(s.volume_profile, s.poc),
                                     target_volume) } } :
                    TRUE

\* update(bar, current_time)
profile_update(s, b, date, tod) ==
    LET s1 == IF s.session_date # date /\ tod >= session_start
              THEN [profile_reset(s) EXCEPT !.session_date = date]
              ELSE s
        s2 == [s1 EXCEPT !.bar_count = s1.bar_count + 1]
    IN  IF tod < session_start THEN s1
        ELSE CHOOSE r \in
               { [s3 EXCEPT !.is_ready =
                    s3.is_ready \/ (s3.bar_count >= min_profile_bars /\ s3.poc # NoPrice)] :
                   s3 \in { profile_calculate_value_area(
                             profile_calculate_poc(
                               profile_distribute_bar_volume(s2, b))) } } :
               TRUE

\* Bars of the first minutes of two sessions between 100.00 and 100.75; a
\* session is followed by the pre-open or the opening bar of the next one.
ProfileTimes == {540, 570, 571, 572, 573, 574}

ProfileLevels == { Pt(100, q) : q \in 0..3 }

ProfileBars ==
    { [high |-> h, low |-> l, close |-> c, volume |-> 100] :
        h \in ProfileLevels, l \in ProfileLevels, c \in ProfileLevels }

\* The bars of the menu that are bars (low <= close <= high), one of 50
\* contracts and one without volume; before the open and from the third bar
\* of a session on, the bars at 100.00 only.
ProfileBarsAt(tod) ==
    LET proper == { b \in ProfileBars : b.low <= b.close /\ b.close <= b.high }
        small == { [high |-> Pt(100, 1), low |-> Pt(100, 0), close |-> Pt(100, 0),
                    volume |-> 50],
                   FlatBar(Pt(100, 0), 0) }
    IN  IF tod \in {session_start, session_start + 1} THEN proper \cup small
        ELSE { FlatBar(Pt(100, 0), 100), FlatBar(Pt(100, 0), 0) }

ProfileStamps ==
    LET later == { t \in ProfileTimes : t > now.tod }
        same == IF now.date = NoDate THEN {}
                ELSE { [date |-> now.date, tod |-> t] :
                         t \in { u \in later : \A v \in later : u <= v } }
        first == IF now.date = NoDate THEN MaxDate - 1 ELSE now.date + 1
        opens == IF now.date = NoDate \/ later = {}
                 THEN { [date |-> first, tod |-> t] : t \in {540, session_start} }
                 ELSE {}
    IN  { st \in same \cup opens : st.date <= MaxDate }

InitProfile ==
    /\ now = [date |-> NoDate, tod |-> 0]
    /\ is_warming_up = TRUE
    /\ symbol = "none"
    /\ portfolio_value = starting_cash
    /\ bar = NoBar
    /\ session_poc = profile_new
    /\ ib_indicator = ib_new
    /\ open_classifier = oc_new
    /\ prior_day = pd_new
    /\ candle_patterns = cp_new
    /\ current_phase = "pre_market"
    /\ position = init_position_dict
    /\ daily_stats = init_daily_stats
    /\ logged_prior_day = FALSE
    /\ logged_ib = FALSE
    /\ orders = <<>>
    /\ runtime_error = FALSE
    /\ initial_stop_loss = NoPrice
    /\ returned = NoCall

\* SessionPOCIndicator.update called with the next bar.
UpdateProfile ==
    /\ \E st \in ProfileStamps :
         \E b \in ProfileBarsAt(st.tod) :
            /\ now' = st
            /\ bar' = b
            /\ session_poc' = profile_update(session_poc, b, st.date, st.tod)
    /\ UNCHANGED <<is_warming_up, symbol, portfolio_value, ib_indicator,
                   open_classifier, prior_day, candle_patterns, current_phase,
                   position, daily_stats, logged_prior_day, logged_ib, orders,
                   runtime_error, initial_stop_loss, returned>>

NextProfile == UpdateProfile

\* The indicator alone, fed the bars of two sessions.
SpecProfile == InitProfile /\ [][NextProfile]_vars

\* ====================================================== the initial balance
\* is_price_extended(current_price, min_extension): the tuple (direction,
\* extension), or the ZeroDivisionError of a division by an IB range of 0.
is_price_extended(s, current_price, min_ext) ==
    LET r == ib_range(s)
        none == [raised |-> FALSE, direction |-> "none", extension |-> [n |-> 0, d |-> 1]]
        above == current_price > s.ibh
        below == current_price < s.ibl
        up == [n |-> current_price - s.ibh, d |-> r]
        down == [n |-> s.ibl - current_price, d |-> r]
    IN  IF r = NoPrice \/ s.ibh = NoPrice \/ s.ibl = NoPrice THEN none
        ELSE IF above /\ r = 0 THEN [raised |-> TRUE]
        ELSE IF above /\ up.n * Pct >= min_ext * up.d
        THEN [raised |-> FALSE, direction |-> "short", extension |-> up]
        ELSE IF below /\ r = 0 THEN [raised |-> TRUE]
        ELSE IF below /\ down.n * Pct >= min_ext * down.d
        THEN [raised |-> FALSE, direction |-> "long", extension |-> down]
        ELSE none

\* Bars of three sessions: before the open, twice in the IB window, at its end
\* and after it. IB bars reach from 100.00 up to one of BalanceHighs, or from
\* 99.00 to 105.00; the other bars trade at 120.00.
BalanceTimes == {540, 570, 600, 630, 660}

BalanceHighs == { Pt(100, 0), Pt(106, 3), Pt(107, 0), Pt(110, 0), Pt(113, 0), Pt(113, 1) }

BalanceBarsAt(tod) ==
    IF market_open <= tod /\ tod < ib_end
    THEN { [high |-> h, low |-> Pt(100, 0), close |-> Pt(100, 0), volume |-> 100] :
             h \in BalanceHighs }
           \cup { [high |-> Pt(105, 0), low |-> Pt(99, 0), close |-> Pt(100, 0),
                   volume |-> 50] }
    ELSE { FlatBar(Pt(120, 0), 100) }

\* The next bar comes later on the same date, or on the next date once the
\* IB window has been entered.
BalanceStamps ==
    LET same == IF now.date = NoDate THEN {}
                ELSE { [date |-> now.date, tod |-> t] :
                         t \in { u \in BalanceTimes : u > now.tod } }
        first == IF now.date = NoDate THEN MaxDate - 2 ELSE now.date + 1
        opens == IF now.date = NoDate \/ now.tod >= 600
                 THEN { [date |-> first, tod |-> t] : t \in BalanceTimes }
                 ELSE {}
    IN  { st \in same \cup opens : st.date <= MaxDate }

\* The indicator as constructed, and as it stands after the last bar of a
\* session with a completed IB of 10 points on top of 4, 19 or 20 earlier ones.
BalanceHistories ==
    { History(10, 4), History(10, 19), <<20 * UnitsPerPoint>> \o History(10, 19) }

InitBalance ==
    /\ \/ /\ now = [date |-> NoDate, tod |-> 0]
          /\ ib_indicator = ib_new
          /\ bar = NoBar
       \/ /\ now = [date |-> MaxDate - 3, tod |-> 660]
          /\ bar = FlatBar(Pt(120, 0), 100)
          /\ \E h \in BalanceHistories :
               ib_indicator = [current_date |-> MaxDate - 3, ibh |-> Pt(110, 0),
                               ibl |-> Pt(100, 0), ib_volume |-> 200,
                               ib_complete |-> TRUE, ib_ranges |-> h,
                               is_ready |-> Len(h) >= min_ib_history]
    /\ is_warming_up = TRUE
    /\ symbol = "none"
    /\ portfolio_value = starting_cash
    /\ session_poc = poc_new
    /\ open_classifier = oc_new
    /\ prior_day = pd_new
    /\ candle_patterns = cp_new
    /\ current_phase = "pre_market"
    /\ position = init_position_dict
    /\ daily_stats = init_daily_stats
    /\ logged_prior_day = FALSE
    /\ logged_ib = FALSE
    /\ orders = <<>>
    /\ runtime_error = FALSE
    /\ initial_stop_loss = NoPrice
    /\ returned = NoCall

\* InitialBalanceIndicator.update called with the next bar.
UpdateBalance ==
    /\ returned = NoCall
    /\ \E st \in BalanceStamps :
         \E b \in BalanceBarsAt(st.tod) :
            /\ now' = st
            /\ bar' = b
            /\ ib_indicator' = ib_update(ib_indicator, b, st.date, st.tod)
    /\ UNCHANGED <<is_warming_up, symbol, portfolio_value, session_poc,
                   open_classifier, prior_day, candle_patterns, current_phase,
                   position, daily_stats, logged_prior_day, logged_ib, orders,
                   runtime_error, initial_stop_loss, returned>>

ExtensionPrices == { Pt(95, 0), Pt(100, 0), Pt(105, 0), Pt(115, 0) }

\* get_extension_amount called on the indicator as it stands.
GetExtensionAmount ==
    /\ returned = NoCall
    /\ \E price \in ExtensionPrices, direction \in {"long", "short"} :
          returned' = [method |-> "get_extension_amount", current_price |-> price,
                       direction |-> direction, raised |-> FALSE,
                       result |-> get_extension_amount(ib_indicator, price, direction)]
    /\ UNCHANGED <<now, is_warming_up, symbol, portfolio_value, bar, indicator_vars,
                   current_phase, position, daily_stats, logged_prior_day,
                   logged_ib, orders, runtime_error, initial_stop_loss>>

\* is_price_extended called on the indicator as it stands.
IsPriceExtended ==
    /\ returned = NoCall
    /\ \E price \in ExtensionPrices, min_ext \in {25, min_extension} :
          returned' = [method |-> "is_price_extended", current_price |-> price,
                       min_extension |-> min_ext,
                       result |-> is_price_extended(ib_indicator, price, min_ext)]
    /\ UNCHANGED <<now, is_warming_up, symbol, portfolio_value, bar, indicator_vars,
                   current_phase, position, daily_stats, logged_prior_day,
                   logged_ib, orders, runtime_error, initial_stop_loss>>

NextBalance ==
    \/ UpdateBalance
    \/ GetExtensionAmount
    \/ IsPriceExtended

\* The indicator alone, fed the bars of up to three sessions and asked for the
\* extension of a price.
SpecBalance == InitBalance /\ [][NextBalance]_vars

\* ========================================================= OpenTypeClassifier
\* The classifier with the bars it collects. Ratios are fractions [n, d] of
\* integers, compared with the thresholds by cross-multiplication.
analysis_period_minutes == 30

min_classification_bars == 15

classifier_new ==
    [current_date |-> NoDate, open_price |-> NoPrice, bars |-> <<>>,
     classification |-> NoClass, classification_complete |-> FALSE,
     first_move_direction |-> "none", max_high |-> NoPrice, min_low |-> NoPrice,
     first_bar_close |-> NoPrice]

\* A reset that leaves the direction of the first move as it is.
classifier_reset_keeping_direction(s) ==
    [classifier_new EXCEPT !.current_date = s.current_date,
                           !.first_move_direction = s.first_move_direction]

\* reset
classifier_reset(s) == [classifier_new EXCEPT !.current_date = s.current_date]

\* _collect_bar_data; the move of the fifth close is significant beyond 0.1%
\* of the open price.
collect_bar_data(s, b) ==
    LET s1 == IF s.open_price = NoPrice
              THEN [s EXCEPT !.open_price = b.open, !.max_high = b.high,
                             !.min_low = b.low, !.first_bar_close = b.close]
              ELSE s
        s2 == [s1 EXCEPT
                 !.bars = deque_append(s1.bars, b, analysis_period_minutes + 5),
                 !.max_high = IF b.high > s1.max_high THEN b.high ELSE s1.max_high,
                 !.min_low = IF b.low < s1.min_low THEN b.low ELSE s1.min_low]
        fifth_bar_close == s2.bars[5].close
    IN  IF s2.first_move_direction = "none" /\ Len(s2.bars) >= 5
        THEN [s2 EXCEPT !.first_move_direction =
                 IF 1000 * fifth_bar_close > 1001 * s2.open_price THEN "up"
                 ELSE IF 1000 * fifth_bar_close < 999 * s2.open_price THEN "down"
                 ELSE "neutral"]
        ELSE s2

\* abs(net_move) / open_price
net_move_pct(s, final_close) ==
    IF s.open_price > 0 THEN [n |-> Abs(final_close - s.open_price), d |-> s.open_price]
    ELSE [n |-> 0, d |-> 1]

\* Where the close is relative to the range; for a neutral first move
\* 0.5 + (final_close - midpoint) / total_range.
end_position(s, final_close, total_range) ==
    IF s.first_move_direction = "up"
    THEN [n |-> final_close - s.min_low, d |-> total_range]
    ELSE IF s.first_move_direction = "down"
    THEN [n |-> s.max_high - final_close, d |-> total_range]
    ELSE [n |-> total_range + 2 * final_close - (s.max_high + s.min_low),
          d |-> 2 * total_range]

directional_ratio(bars_list) ==
    LET up_bars == Cardinality({ i \in DOMAIN bars_list : bars_list[i].close > bars_list[i].open })
        down_bars == Cardinality({ i \in DOMAIN bars_list : bars_list[i].close < bars_list[i].open })
        total_bars == Len(bars_list)
    IN  IF total_bars > 0
        THEN [n |-> IF up_bars >= down_bars THEN up_bars ELSE down_bars, d |-> total_bars]
        ELSE [n |-> 1, d |-> 2]

\* _check_early_pullback on bars_list[:10], the first bar skipped
check_early_pullback(s, bars_list) ==
    /\ bars_list # <<>>
    /\ s.first_move_direction # "neutral"
    /\ \E i \in 2..Min(10, Len(bars_list)) :
          \/ s.first_move_direction = "up" /\ bars_list[i].close < s.open_price
          \/ s.first_move_direction = "down" /\ bars_list[i].close > s.open_price

\* The 0-based index of the last of the 1-based indexes hits, 0 when empty.
last_bar_index(hits) ==
    IF hits = {} THEN 0 ELSE (CHOOSE i \in hits : \A j \in hits : j <= i) - 1

\* _check_rejection
check_rejection(s, bars_list) ==
    LET high_bar_index ==
            last_bar_index({ i \in DOMAIN bars_list : bars_list[i].high = s.max_high })
        low_bar_index ==
            last_bar_index({ i \in DOMAIN bars_list : bars_list[i].low = s.min_low })
        final_close == bars_list[Len(bars_list)].close
        third == Len(bars_list) \div 3
    IN  /\ Len(bars_list) >= 10
        /\ \/ high_bar_index <= third /\ 2 * final_close < s.max_high + s.min_low
           \/ low_bar_index <= third /\ 2 * final_close > s.max_high + s.min_low

\* A decision that tries the secondary open drive before the test drive.
determine_open_type_secondary_first(dr, ep, nm, had_early_pullback, had_rejection) ==
    IF Pct * dr.n > 70 * dr.d /\ Pct * ep.n > 75 * ep.d /\ ~had_early_pullback
    THEN "open_drive"
    ELSE IF had_rejection /\ Pct * ep.n < 40 * ep.d
    THEN "open_rejection_reverse"
    ELSE IF Pct * dr.n > 65 * dr.d /\ Pct * ep.n > 70 * ep.d /\ 1000 * nm.n > 3 * nm.d
    THEN "open_drive"
    ELSE IF had_early_pullback /\ Pct * ep.n > 60 * ep.d /\ 1000 * nm.n > 2 * nm.d
    THEN "open_test_drive"
    ELSE "open_auction"

\* _determine_open_type
determine_open_type(dr, ep, nm, had_early_pullback, had_rejection) ==
    IF Pct * dr.n > 70 * dr.d /\ Pct * ep.n > 75 * ep.d /\ ~had_early_pullback
    THEN "open_drive"
    ELSE IF had_rejection /\ Pct * ep.n < 40 * ep.d
    THEN "open_rejection_reverse"
    ELSE IF had_early_pullback /\ Pct * ep.n > 60 * ep.d /\ 1000 * nm.n > 2 * nm.d
    THEN "open_test_drive"
    ELSE IF Pct * dr.n > 65 * dr.d /\ Pct * ep.n > 70 * ep.d /\ 1000 * nm.n > 3 * nm.d
    THEN "open_drive"
    ELSE "open_auction"

\* A classification that needs more than min_classification_bars bars.
classify_needing_more(s) ==
    LET bars_list == s.bars
        final_close == bars_list[Len(bars_list)].close
        total_range == s.max_high - s.min_low
    IN  IF Len(s.bars) <= min_classification_bars
        THEN [s EXCEPT !.classification = "unknown", !.classification_complete = TRUE]
        ELSE IF total_range = 0
        THEN [s EXCEPT !.classification = "open_auction", !.classification_complete = TRUE]
        ELSE [s EXCEPT
                !.classification =
                    determine_open_type(directional_ratio(bars_list),
                                        end_position(s, final_close, total_range),
                                        net_move_pct(s, final_close),
                                        check_early_pullback(s, bars_list),
                                        check_rejection(s, bars_list)),
                !.classification_complete = TRUE]

\* _classify
classify(s) ==
    LET bars_list == s.bars
        final_close == bars_list[Len(bars_list)].close
        total_range == s.max_high - s.min_low
    IN  IF Len(s.bars) < min_classification_bars
        THEN [s EXCEPT !.classification = "unknown", !.classification_complete = TRUE]
        ELSE IF total_range = 0
        THEN [s EXCEPT !.classification = "open_auction", !.classification_complete = TRUE]
        ELSE [s EXCEPT
                !.classification =
                    determine_open_type(directional_ratio(bars_list),
                                        end_position(s, final_close, total_range),
                                        net_move_pct(s, final_close),
                                        check_early_pullback(s, bars_list),
                                        check_rejection(s, bars_list)),
                !.classification_complete = TRUE]

\* update
classifier_update(s, b, date, tod) ==
    LET s1 == IF s.current_date # date
              THEN [classifier_reset(s) EXCEPT !.current_date = date]
              ELSE s
    IN  IF tod < market_open THEN s1
        ELSE IF s1.classification_complete THEN s1
        ELSE IF tod >= analysis_end THEN classify(s1)
        ELSE collect_bar_data(s1, b)

\* The classifier after the bars of bars_list, one a minute from tod on.
RECURSIVE classifier_run(_, _, _, _)
classifier_run(s, bars_list, date, tod) ==
    IF bars_list = <<>> THEN s
    ELSE classifier_run(classifier_update(s, Head(bars_list), date, tod),
                        Tail(bars_list), date, tod + 1)

\* ------------------------------------------------ the classifier on its own
\* One-minute bars from 09:30 to 09:44, each opening at the close before it
\* and closing one tick higher or lower (unchanged at most on the last, or on
\* all of them); a bar before the open, at 10:00 and at 10:15 trade flat.
OpenBar(o, c) ==
    [open |-> o, high |-> IF o >= c THEN o ELSE c, low |-> IF o <= c THEN o ELSE c,
     close |-> c, volume |-> 100]

OpenLevel == Pt(250, 0)

LastWindowTime == market_open + min_classification_bars - 1

OpenSteps(tod) ==
    IF tod = market_open THEN {TickSize, 0}
    ELSE IF bar.open = bar.close THEN {0}
    ELSE IF tod = LastWindowTime THEN {TickSize, -TickSize, 0}
    ELSE {TickSize, -TickSize}

OpenBarsAt(tod) ==
    IF tod = market_open
    THEN { OpenBar(OpenLevel, OpenLevel + d) : d \in OpenSteps(tod) }
    ELSE IF market_open < tod /\ tod < analysis_end
    THEN { OpenBar(bar.close, bar.close + d) : d \in OpenSteps(tod) }
    ELSE { OpenBar(OpenLevel, OpenLevel) }

\* The next bar: a minute later within the window, or at 10:00 (the bars up
\* to then missing), then at 10:15, or on the next date at 09:25 or 09:30.
OpenStamps ==
    LET same == IF now.date = NoDate THEN {}
                ELSE IF now.tod < market_open THEN {market_open, analysis_end}
                ELSE IF now.tod < LastWindowTime THEN {now.tod + 1, analysis_end}
                ELSE IF now.tod < analysis_end THEN {analysis_end}
                ELSE IF now.tod = analysis_end THEN {analysis_end + 15}
                ELSE {}
        opens == IF now.date = NoDate \/ now.tod >= analysis_end
                 THEN {market_open - 5, market_open}
                 ELSE {}
        first == IF now.date = NoDate THEN MaxDate ELSE now.date + 1
    IN  { st \in { [date |-> now.date, tod |-> t] : t \in same }
                   \cup { [date |-> first, tod |-> t] : t \in opens } :
            st.date <= MaxDate }

\* The session before: fifteen bars falling a tick each from 250.00, and the
\* bar at 10:00 that classified them.
PriorSessionBars ==
    [i \in 1..min_classification_bars |->
        OpenBar(OpenLevel - (i - 1) * TickSize, OpenLevel - i * TickSize)]

PriorSession ==
    classifier_update(classifier_run(classifier_new, PriorSessionBars,
                                     MaxDate - 1, market_open),
                      OpenBar(OpenLevel, OpenLevel), MaxDate - 1, analysis_end)

\* The classifier as constructed, or as the session before has left it.
InitOpen ==
    /\ \/ /\ now = [date |-> NoDate, tod |-> 0]
          /\ open_classifier = classifier_new
       \/ /\ now = [date |-> MaxDate - 1, tod |-> analysis_end]
          /\ open_classifier = PriorSession
    /\ bar = OpenBar(OpenLevel, OpenLevel)
    /\ is_warming_up = TRUE
    /\ symbol = "none"
    /\ portfolio_value = starting_cash
    /\ session_poc = poc_new
    /\ ib_indicator = ib_new
    /\ prior_day = pd_new
    /\ candle_patterns = cp_new
    /\ current_phase = "pre_market"
    /\ position = init_position_dict
    /\ daily_stats = init_daily_stats
    /\ logged_prior_day = FALSE
    /\ logged_ib = FALSE
    /\ orders = <<>>
    /\ runtime_error = FALSE
    /\ initial_stop_loss = NoPrice
    /\ returned = NoCall

\* update(bar, current_time)
UpdateOpen ==
    /\ \E st \in OpenStamps :
         \E b \in OpenBarsAt(st.tod) :
            /\ now' = st
            /\ bar' = b
            /\ open_classifier' = classifier_update(open_classifier, b, st.date, st.tod)
    /\ UNCHANGED <<is_warming_up, symbol, portfolio_value, session_poc,
                   ib_indicator, prior_day, candle_patterns, current_phase,
                   position, daily_stats, logged_prior_day, logged_ib, orders,
                   runtime_error, initial_stop_loss, returned>>

NextOpen == UpdateOpen

\* The classifier alone, fed the bars of a session.
SpecOpen == InitOpen /\ [][NextOpen]_vars

\* ------------------------------------------- PriorDayContext with its levels
\* The context with the levels it tracks and publishes, fed the result of the
\* volume profile.
history_days == 5

prior_new ==
    [history |-> <<>>, current_date |-> NoDate,
     session_high |-> NoPrice, session_low |-> NoPrice, session_open |-> NoPrice,
     session_close |-> NoPrice, session_poc |-> NoPrice, session_vah |-> NoPrice,
     session_val |-> NoPrice,
     prior_day_high |-> NoPrice, prior_day_low |-> NoPrice, prior_day_open |-> NoPrice,
     prior_day_close |-> NoPrice, prior_day_poc |-> NoPrice, prior_day_vah |-> NoPrice,
     prior_day_val |-> NoPrice, is_ready |-> FALSE]

\* reset_session
prior_reset_session(s) ==
    [s EXCEPT !.session_high = NoPrice, !.session_low = NoPrice,
              !.session_open = NoPrice, !.session_close = NoPrice,
              !.session_poc = NoPrice, !.session_vah = NoPrice,
              !.session_val = NoPrice]

\* A save that publishes the finished session without recording it.
prior_save_session_unrecorded(s) ==
    [s EXCEPT
       !.prior_day_high = s.session_high, !.prior_day_low = s.session_low,
       !.prior_day_open = s.session_open, !.prior_day_close = s.session_close,
       !.prior_day_poc = s.session_poc, !.prior_day_vah = s.session_vah,
       !.prior_day_val = s.session_val, !.is_ready = TRUE]

\* The date-change branch of update: the finished session saved and published.
prior_save_session(s) ==
    [s EXCEPT
       !.history = deque_append(s.history,
                                [date |-> s.current_date, high |-> s.session_high,
                                 low |-> s.session_low, open |-> s.session_open,
                                 close |-> s.session_close, poc |-> s.session_poc,
                                 vah |-> s.session_vah, val |-> s.session_val],
                                history_days),
       !.prior_day_high = s.session_high, !.prior_day_low = s.session_low,
       !.prior_day_open = s.session_open, !.prior_day_close = s.session_close,
       !.prior_day_poc = s.session_poc, !.prior_day_vah = s.session_vah,
       !.prior_day_val = s.session_val, !.is_ready = TRUE]

\* An update that takes the profile's levels at any time of day.
prior_update_absorbing_always(s, b, date, tod, session_poc_data) ==
    LET s1 == IF s.current_date # date
              THEN LET saved == IF s.current_date # NoDate /\ s.session_high # NoPrice
                                THEN prior_save_session(s)
                                ELSE s
                   IN  prior_reset_session([saved EXCEPT !.current_date = date])
              ELSE s
        taken == [s1 EXCEPT !.session_poc = session_poc_data.poc,
                            !.session_vah = session_poc_data.vah,
                            !.session_val = session_poc_data.val]
    IN  IF tod < session_start \/ tod >= session_end THEN taken
        ELSE [taken EXCEPT
                !.session_open = IF s1.session_open = NoPrice THEN b.open
                                 ELSE s1.session_open,
                !.session_high = IF s1.session_high = NoPrice \/ b.high > s1.session_high
                                 THEN b.high ELSE s1.session_high,
                !.session_low = IF s1.session_low = NoPrice \/ b.low < s1.session_low
                                THEN b.low ELSE s1.session_low,
                !.session_close = b.close]

\* update(bar, current_time, session_poc_data); session_poc_data is the
\* result of SessionPOCIndicator.update, a dict that is never empty.
prior_update(s, b, date, tod, session_poc_data) ==
    LET s1 == IF s.current_date # date
              THEN LET saved == IF s.current_date # NoDate /\ s.session_high # NoPrice
                                THEN prior_save_session(s)
                                ELSE s
                   IN  prior_reset_session([saved EXCEPT !.current_date = date])
              ELSE s
    IN  IF tod < session_start \/ tod >= session_end THEN s1
        ELSE [s1 EXCEPT
                !.session_open = IF s1.session_open = NoPrice THEN b.open
                                 ELSE s1.session_open,
                !.session_high = IF s1.session_high = NoPrice \/ b.high > s1.session_high
                                 THEN b.high ELSE s1.session_high,
                !.session_low = IF s1.session_low = NoPrice \/ b.low < s1.session_low
                                THEN b.low ELSE s1.session_low,
                !.session_close = b.close,
                !.session_poc = session_poc_data.poc,
                !.session_vah = session_poc_data.vah,
                !.session_val = session_poc_data.val]

\* _get_result of the volume profile
profile_get_result(s) ==
    [poc |-> s.poc, vah |-> s.vah, val |-> s.val, poc_volume |-> s.poc_volume,
     is_ready |-> s.is_ready]

\* on_data's updates of the profile and of the context on one bar.
context_update(c, b, date, tod) ==
    CHOOSE r \in
      { [profile |-> p, prior |-> prior_update(c.prior, b, date, tod, profile_get_result(p))] :
          p \in { profile_update(c.profile, b, date, tod) } } : TRUE

\* Bars before the open, at 09:30 and 10:00, and at 16:00 when the regular
\* session is over; any of them may be missing.
PriorTimes == {540, 570, 600, 960}

PriorBar(o, h, l, c, v) == [open |-> o, high |-> h, low |-> l, close |-> c, volume |-> v]

PriorBarsAt(tod) ==
    IF session_start <= tod /\ tod < session_end
    THEN { PriorBar(Pt(100, 0), Pt(100, 1), Pt(100, 0), Pt(100, 1), 100),
           PriorBar(Pt(100, 2), Pt(100, 3), Pt(100, 2), Pt(100, 2), 100),
           PriorBar(Pt(100, 0), Pt(100, 0), Pt(100, 0), Pt(100, 0), 100) }
    ELSE IF tod >= session_end
    THEN { PriorBar(Pt(101, 0), Pt(101, 0), Pt(101, 0), Pt(101, 0), 300),
           PriorBar(Pt(100, 0), Pt(100, 0), Pt(100, 0), Pt(100, 0), 100) }
    ELSE { PriorBar(Pt(99, 0), Pt(99, 0), Pt(99, 0), Pt(99, 0), 100) }

PriorStamps ==
    LET same == IF now.date = NoDate THEN {}
                ELSE { [date |-> now.date, tod |-> t] :
                         t \in { u \in PriorTimes : u > now.tod } }
        first == IF now.date = NoDate THEN MaxDate - 2 ELSE now.date + 1
    IN  { st \in same \cup { [date |-> first, tod |-> t] : t \in PriorTimes } :
            st.date <= MaxDate }

\* Five sessions of one bar at 09:30 each, the k-th at k points above 100.
RECURSIVE context_after_sessions(_, _)
context_after_sessions(k, date) ==
    IF k = 0 THEN [profile |-> profile_new, prior |-> prior_new]
    ELSE context_update(context_after_sessions(k - 1, date - 1),
                        PriorBar(Pt(100 + k, 0), Pt(100 + k, 1), Pt(100 + k, 0),
                                 Pt(100 + k, 1), 100),
                        date, session_start)

\* The indicators as constructed, or after five sessions.
InitPrior ==
    /\ \/ /\ now = [date |-> NoDate, tod |-> 0]
          /\ session_poc = profile_new
          /\ prior_day = prior_new
       \/ /\ now = [date |-> MaxDate - 3, tod |-> session_start]
          /\ session_poc = context_after_sessions(history_days, MaxDate - 3).profile
          /\ prior_day = context_after_sessions(history_days, MaxDate - 3).prior
    /\ bar = NoBar
    /\ is_warming_up = TRUE
    /\ symbol = "none"
    /\ portfolio_value = starting_cash
    /\ ib_indicator = ib_new
    /\ open_classifier = oc_new
    /\ candle_patterns = cp_new
    /\ current_phase = "pre_market"
    /\ position = init_position_dict
    /\ daily_stats = init_daily_stats
    /\ logged_prior_day = FALSE
    /\ logged_ib = FALSE
    /\ orders = <<>>
    /\ runtime_error = FALSE
    /\ initial_stop_loss = NoPrice
    /\ returned = NoCall

\* The two updates of on_data on one bar.
UpdatePrior ==
    /\ \E st \in PriorStamps :
         \E b \in PriorBarsAt(st.tod) :
            /\ now' = st
            /\ bar' = b
            /\ \E c \in { context_update([profile |-> session_poc, prior |-> prior_day],
                                         b, st.date, st.tod) } :
                  /\ session_poc' = c.profile
                  /\ prior_day' = c.prior
    /\ UNCHANGED <<is_warming_up, symbol, portfolio_value, ib_indicator,
                   open_classifier, candle_patterns, current_phase,
                   position, daily_stats, logged_prior_day, logged_ib, orders,
                   runtime_error, initial_stop_loss, returned>>

NextPrior == UpdatePrior

\* The volume profile and the prior-day context, fed the bars of three dates.
SpecPrior == InitPrior /\ [][NextPrior]_vars

\* ------------------------------------------------ CandlePatternDetector, exact
\* The detector with the bars and volumes it stores and the patterns of the
\* last bar. Prices are in ticks' units, so a body below 0.0001 is a body of 0.
MaxCandleBars == 2

wick_body_ratio == 2

volume_lookback == 20

volume_climax_mult == 2

empty_patterns ==
    [bullish_rejection |-> FALSE, bearish_rejection |-> FALSE,
     bullish_engulfing |-> FALSE, bearish_engulfing |-> FALSE,
     volume_climax_bullish |-> FALSE, volume_climax_bearish |-> FALSE,
     any_bullish |-> FALSE, any_bearish |-> FALSE]

candles_new == [bars |-> <<>>, volumes |-> <<>>, last_patterns |-> empty_patterns]

\* _detect_rejection_candle: "bullish", "bearish" or "none"
detect_rejection_candle(b) ==
    LET body == Abs(b.close - b.open)
        upper_wick == b.high - (IF b.close >= b.open THEN b.close ELSE b.open)
        lower_wick == (IF b.close <= b.open THEN b.close ELSE b.open) - b.low
    IN  IF body = 0
        THEN IF lower_wick > upper_wick * 2 THEN "bullish"
             ELSE IF upper_wick > lower_wick * 2 THEN "bearish"
             ELSE "none"
        ELSE IF lower_wick >= body * wick_body_ratio /\ upper_wick < body THEN "bullish"
        ELSE IF upper_wick >= body * wick_body_ratio /\ lower_wick < body THEN "bearish"
        ELSE "none"

\* An engulfing test that accepts a body as large as the previous one.
detect_engulfing_equal_body(current, previous) ==
    LET prev_body == Abs(previous.close - previous.open)
        curr_body == Abs(current.close - current.open)
    IN  IF curr_body < prev_body THEN "none"
        ELSE IF /\ previous.close < previous.open
                /\ current.close > current.open
                /\ current.open <= previous.close
                /\ current.close >= previous.open
        THEN "bullish"
        ELSE IF /\ previous.close > previous.open
                /\ current.close < current.open
                /\ current.open >= previous.close
                /\ current.close <= previous.open
        THEN "bearish"
        ELSE "none"

\* _detect_engulfing
detect_engulfing(current, previous) ==
    LET prev_body == Abs(previous.close - previous.open)
        curr_body == Abs(current.close - current.open)
    IN  IF curr_body <= prev_body THEN "none"
        ELSE IF /\ previous.close < previous.open
                /\ current.close > current.open
                /\ current.open <= previous.close
                /\ current.close >= previous.open
        THEN "bullish"
        ELSE IF /\ previous.close > previous.open
                /\ current.close < current.open
                /\ current.open >= previous.close
                /\ current.close <= previous.open
        THEN "bearish"
        ELSE "none"

\* _detect_volume_climax: the bar's volume above volume_climax_mult times the
\* mean of the last 10 volumes, the bar's included.
detect_volume_climax(volumes, b) ==
    IF Len(volumes) < 10 THEN "none"
    ELSE IF b.volume * 10
              <= SumSeq(SubSeq(volumes, Len(volumes) - 9, Len(volumes))) * volume_climax_mult
    THEN "none"
    ELSE IF b.close > b.open THEN "bullish"
    ELSE IF b.close < b.open THEN "bearish"
    ELSE "none"

\* update(bar)
candles_update(s, b) ==
    LET bars == deque_append(s.bars, b, candle_lookback)
        volumes == deque_append(s.volumes, b.volume, volume_lookback)
        current == bars[Len(bars)]
        previous == bars[Len(bars) - 1]
        rejection == detect_rejection_candle(current)
        engulfing == detect_engulfing(current, previous)
        climax == detect_volume_climax(volumes, current)
    IN  [bars |-> bars, volumes |-> volumes,
         last_patterns |->
            IF Len(bars) < 2 THEN empty_patterns
            ELSE [bullish_rejection |-> rejection = "bullish",
                  bearish_rejection |-> rejection = "bearish",
                  bullish_engulfing |-> engulfing = "bullish",
                  bearish_engulfing |-> engulfing = "bearish",
                  volume_climax_bullish |-> climax = "bullish",
                  volume_climax_bearish |-> climax = "bearish",
                  any_bullish |-> \/ rejection = "bullish" \/ engulfing = "bullish"
                                  \/ climax = "bullish",
                  any_bearish |-> \/ rejection = "bearish" \/ engulfing = "bearish"
                                  \/ climax = "bearish"]]

\* The detector after the bars of bars_list.
RECURSIVE candles_run(_, _)
candles_run(s, bars_list) ==
    IF bars_list = <<>> THEN s
    ELSE candles_run(candles_update(s, Head(bars_list)), Tail(bars_list))

\* Bars that open and close on four levels a tick apart, without wicks (of
\* 100 or 300 contracts) or with a wick of two ticks above or below.
CandleLevels == { Pt(100, q) : q \in 0..3 }

CandleWicks == { <<0, 0, 100>>, <<0, 0, 300>>, <<2, 0, 100>>, <<0, 2, 100>> }

CandleBars ==
    { [open |-> o, close |-> c,
       high |-> (IF o >= c THEN o ELSE c) + w[1] * TickSize,
       low |-> (IF o <= c THEN o ELSE c) - w[2] * TickSize,
       volume |-> w[3]] :
        o \in CandleLevels, c \in CandleLevels, w \in CandleWicks }

\* Nine bars falling from 100.75 to 100.50 and back up, 100 contracts each.
EarlierCandles ==
    [i \in 1..9 |->
        IF i % 2 = 1
        THEN [open |-> Pt(100, 3), high |-> Pt(100, 3), low |-> Pt(100, 2),
              close |-> Pt(100, 2), volume |-> 100]
        ELSE [open |-> Pt(100, 2), high |-> Pt(100, 3), low |-> Pt(100, 2),
              close |-> Pt(100, 3), volume |-> 100]]

\* The detector as constructed, or after nine bars.
InitCandle ==
    /\ candle_patterns \in { candles_new, candles_run(candles_new, EarlierCandles) }
    /\ now = [date |-> MaxDate, tod |-> market_open]
    /\ bar = NoBar
    /\ is_warming_up = TRUE
    /\ symbol = "none"
    /\ portfolio_value = starting_cash
    /\ session_poc = poc_new
    /\ ib_indicator = ib_new
    /\ open_classifier = oc_new
    /\ prior_day = pd_new
    /\ current_phase = "pre_market"
    /\ position = init_position_dict
    /\ daily_stats = init_daily_stats
    /\ logged_prior_day = FALSE
    /\ logged_ib = FALSE
    /\ orders = <<>>
    /\ runtime_error = FALSE
    /\ initial_stop_loss = NoPrice
    /\ returned = NoCall

\* update(bar) on the bar of the next minute, for MaxCandleBars minutes.
UpdateCandle ==
    /\ now.tod < market_open + MaxCandleBars
    /\ \E b \in CandleBars :
          /\ now' = [now EXCEPT !.tod = now.tod + 1]
          /\ bar' = b
          /\ candle_patterns' = candles_update(candle_patterns, b)
    /\ UNCHANGED <<is_warming_up, symbol, portfolio_value, session_poc, ib_indicator,
                   open_classifier, prior_day, current_phase,
                   position, daily_stats, logged_prior_day, logged_ib, orders,
                   runtime_error, initial_stop_loss, returned>>

NextCandle == UpdateCandle

\* The detector alone, fed the bars of a few minutes.
SpecCandle == InitCandle /\ [][NextCandle]_vars

\* Each state of InitWarm is reached from the construction of the algorithm:
\* SpecCold violates both.
ColdNeverWarm4 == ~(portfolio_value = starting_cash /\ WarmAfter(T(4)))

ColdNeverWarm8 == ~(portfolio_value = starting_cash /\ WarmAfter(T(8)))

\* ===================================================================== claims
\* A step in which on_data gets past its guard clauses and processes a bar.
Processed ==
    /\ now' # now
    /\ weekday(now'.date) < 5
    /\ ~is_warming_up
    /\ symbol # "none"

EntryOrdered(os) == \E i \in 1..Len(os) : os[i].tag = "entry"

Liquidated(os, reason) ==
    \E i \in 1..Len(os) : os[i].op = "liquidate" /\ os[i].tag = reason

\* C1: the position goes from flat to long or short only while a bar of the
\* TRADING phase (10:30 <= time of day < 14:30) is processed and only if the
\* position was flat when that bar arrived; no entry order is placed on a bar
\* of any other phase, nor while a position is open.
C1_EntryOnlyInTradingWhenFlat ==
    [][ ((~IsOpen(position) /\ IsOpen(position')) \/ (Processed /\ EntryOrdered(orders')))
          => /\ Processed
             /\ current_phase' = "trading"
             /\ ib_end <= now'.tod /\ now'.tod < new_entry_cutoff
             /\ ~IsOpen(position) ]_vars

\* An entry has just been made on a TRADING bar.
C1_Witness ==
    /\ EntryOrdered(orders)
    /\ IsOpen(position)
    /\ current_phase = "trading"
    /\ position.entry_time = now

\* C2: on the bar of every executed entry the IB is complete and its tracker
\* ready, the profile is ready, the open type is not OPEN_DRIVE, the daily P&L
\* is above -(max_daily_risk x portfolio value), the close is outside
\* [IBL, IBH] with an extension inside [min_extension, max_extension], the
\* confirmation flag matches the direction, the profit distance to the live
\* POC is positive, reward:risk >= min_rr_ratio and score >= min_score_to_trade.
C2_EntryPreconditions ==
    EntryOrdered(orders) =>
        LET r == ib_range(ib_indicator)
            close == bar.close
            long == position.is_long
            extension == IF long THEN ib_indicator.ibl - close
                         ELSE close - ib_indicator.ibh
            profit == IF long THEN session_poc.poc - close
                      ELSE close - session_poc.poc
        IN  /\ ib_indicator.ib_complete /\ ib_indicator.is_ready
            /\ session_poc.is_ready
            /\ open_classifier.classification # "open_drive"
            /\ daily_stats.daily_pnl * Pct
                  > -(max_daily_risk * portfolio_value * UnitsPerPoint)
            /\ position.is_long # position.is_short
            /\ ib_indicator.ibl # NoPrice /\ ib_indicator.ibh # NoPrice /\ r > 0
            /\ IF long THEN close < ib_indicator.ibl ELSE close > ib_indicator.ibh
            /\ min_extension * r <= extension * Pct
            /\ extension * Pct <= max_extension * r
            /\ IF long THEN candle_patterns.any_bullish
               ELSE candle_patterns.any_bearish
            /\ session_poc.poc # NoPrice /\ profit > 0
            /\ profit * Pct * Pct >= min_rr_ratio * stop_ib_multiplier * r
            /\ position.setup_score >= min_score_to_trade

\* A short entry has just been made above the IB high.
C2_Witness ==
    /\ EntryOrdered(orders)
    /\ position.is_short
    /\ bar.close > ib_indicator.ibh
    /\ candle_patterns.any_bearish

\* C3: after a bar of the CLOSED phase (time of day >= 15:45) is processed the
\* position is flat; a position open when the bar arrived is liquidated in full
\* on that bar, whatever its stop, targets or unrealized P&L.
C3_FlatAfterClosedBar ==
    [][ (Processed /\ current_phase' = "closed")
          => /\ ~IsOpen(position')
             /\ position' = init_position_dict
             /\ IsOpen(position) => orders' = << [op |-> "liquidate", qty |-> 0,
                                                tag |-> "Session close (3:45 PM)"] >> ]_vars

\* A position held into the 15:45 bar at a loss has just been liquidated.
C3_Witness ==
    /\ current_phase = "closed"
    /\ Liquidated(orders, "Session close (3:45 PM)")
    /\ daily_stats.trades_taken = 1
    /\ daily_stats.losses = 1
    /\ ~IsOpen(position)

\* The bar of the step breaches the stop the position had when it arrived.
StopBreached ==
    IF position.is_long THEN bar'.close <= position.stop_loss
    ELSE bar'.close >= position.stop_loss

\* C4: on every bar processed while a position is open, a stop-loss breach
\* (long: close <= stop; short: close >= stop) gives a full close on that same
\* bar: the position is liquidated and reset to flat, and no breakeven move,
\* partial exit or stop tightening is applied on that bar.
C4_StopBreachClosesSameBar ==
    [][ (Processed /\ IsOpen(position) /\ StopBreached)
          => /\ position' = init_position_dict
             /\ Len(orders') = 1
             /\ orders'[1].op = "liquidate" ]_vars

\* C5: over the life of one position, across breakeven moves and end-of-day
\* tightenings, the stop never loosens: from bar to bar it is non-decreasing
\* for a long and non-increasing for a short.
C5_StopNeverLoosens ==
    [][ (IsOpen(position) /\ IsOpen(position'))
          => /\ position'.entry_time = position.entry_time
             /\ position'.is_long = position.is_long
             /\ IF position.is_long
                THEN position'.stop_loss >= position.stop_loss
                ELSE position'.stop_loss <= position.stop_loss ]_vars

\* A short whose stop went to breakeven and was then tightened below the entry.
C5_Witness ==
    /\ position.is_short
    /\ position.at_breakeven
    /\ position.stop_loss < position.entry_price
    /\ initial_stop_loss > position.entry_price

\* A bar processed in a phase that manages the open position.
Managed ==
    /\ Processed
    /\ IsOpen(position)
    /\ current_phase' \in {"trading", "eod_management"}

\* Unrealized profit of the position at the close of the step's bar.
Profit ==
    IF position.is_long THEN bar'.close - position.entry_price
    ELSE position.entry_price - bar'.close

InitialStopDistance == Abs(position.entry_price - initial_stop_loss)

\* C6: the stop goes to breakeven exactly when unrealized profit first reaches
\* the initial stop distance (entry price to the stop set at entry):
\* at_breakeven is never set on a bar whose profit is below that distance,
\* also after end-of-day tightening, and it is set on the managed bar that is
\* not stopped out and whose profit reaches it.
C6_BreakevenAtInitialDistance ==
    [][ /\ (IsOpen(position) /\ ~position.at_breakeven
              /\ IsOpen(position') /\ position'.at_breakeven)
           => Profit >= InitialStopDistance
        /\ (Managed /\ ~position.at_breakeven /\ ~StopBreached
              /\ Profit >= InitialStopDistance /\ IsOpen(position'))
           => position'.at_breakeven ]_vars

\* The stop of the position once the step's breakeven move, if any, is made.
StopAfterBreakeven ==
    IF ~position.at_breakeven /\ position'.at_breakeven
    THEN position.entry_price
    ELSE position.stop_loss

\* The stop after the step lies halfway between StopAfterBreakeven and the close.
TightenedByHalf == 2 * position'.stop_loss = bar'.close + StopAfterBreakeven

\* C7 as stated: the breakeven move is one-way and happens at most once; once
\* at_breakeven is true it stays true until the position is closed and the
\* stop stays at the entry price on every later bar of the trade.
C7_StopStaysAtEntry ==
    [][ (IsOpen(position) /\ position.at_breakeven /\ IsOpen(position'))
          => /\ position'.at_breakeven
             /\ position'.stop_loss = position.entry_price ]_vars

\* C7 amended: once at_breakeven is true it stays true until the position is
\* closed; the stop is set to the entry price on the bar that sets the flag and
\* afterwards is never on the losing side of the entry price; a later bar moves
\* it only by an end-of-day tightening at or after 15:00, never by a pullback.
C7_BreakevenOneWay ==
    [][ /\ (IsOpen(position) /\ position.at_breakeven /\ IsOpen(position'))
           => /\ position'.at_breakeven
              /\ position'.entry_price = position.entry_price
              /\ IF position.is_long
                 THEN position'.stop_loss >= position.entry_price
                 ELSE position'.stop_loss <= position.entry_price
              /\ position'.stop_loss # position.stop_loss
                    => /\ Processed
                       /\ current_phase' = "eod_management"
                       /\ now'.tod >= tighten_stops_time
                       /\ TightenedByHalf
        /\ (IsOpen(position) /\ ~position.at_breakeven
              /\ IsOpen(position') /\ position'.at_breakeven)
           => \/ position'.stop_loss = position.entry_price
              \/ /\ current_phase' = "eod_management"
                 /\ now'.tod >= tighten_stops_time
                 /\ TightenedByHalf ]_vars

\* A long at breakeven whose stop is at the entry price while the price has
\* pulled back under the level that triggered the move.
C7_Witness ==
    /\ position.is_long
    /\ position.at_breakeven
    /\ position.stop_loss = position.entry_price
    /\ bar.close > position.entry_price
    /\ bar.close - position.entry_price < position.entry_price - initial_stop_loss

\* C8 as stated: on every bar of the EOD_MANAGEMENT phase (14:30 <= time of
\* day < 15:45) on which the position is still open after the stop and target
\* checks, the stop moves toward the close by 50% of its current distance.
C8_TightenOnEveryEodBar ==
    [][ (Processed /\ current_phase' = "eod_management"
           /\ IsOpen(position) /\ IsOpen(position'))
          => TightenedByHalf ]_vars

\* C8 amended: on every EOD_MANAGEMENT bar at or after the stop-tightening time
\* (15:00) on which the position is still open after the stop and target
\* checks, the stop moves toward the close by 50% of its current distance; on
\* an EOD_MANAGEMENT bar before 15:00 the stop is not tightened.
C8_TightenFromTightenTime ==
    [][ (Processed /\ current_phase' = "eod_management"
           /\ IsOpen(position) /\ IsOpen(position'))
          => IF now'.tod >= tighten_stops_time
             THEN TightenedByHalf
             ELSE position'.stop_loss = StopAfterBreakeven ]_vars

\* A long not yet at breakeven whose stop was tightened on the last bar.
C8_Witness ==
    /\ current_phase = "eod_management"
    /\ now.tod >= tighten_stops_time
    /\ position.is_long
    /\ ~position.at_breakeven
    /\ position.stop_loss > initial_stop_loss
    /\ 2 * position.stop_loss = bar.close + initial_stop_loss

\* The close of the step's bar has reached the IB midpoint recorded at entry.
MidpointReached ==
    IF position.is_long THEN bar'.close >= position.target_midpoint
    ELSE bar'.close <= position.target_midpoint

\* The step sends an opposite-side market order for q contracts as a partial exit.
PartialOrdered(q) ==
    \E i \in 1..Len(orders') :
        /\ orders'[i].tag = "partial"
        /\ orders'[i].op = "market_order"
        /\ orders'[i].qty = IF position.is_long THEN -q ELSE q

NoPartialOrdered == \A i \in 1..Len(orders') : orders'[i].tag # "partial"

\* The step takes the partial exit of q contracts.
PartialTaken(q) ==
    /\ q >= 1
    /\ PartialOrdered(q)
    /\ IsOpen(position')
          => /\ position'.took_partial
             /\ position'.remaining_quantity = position.remaining_quantity - q

\* C9 as stated: with a position open and no partial taken, the first managed
\* bar whose close reaches the IB midpoint recorded at entry sends an
\* opposite-side market order for half of the remaining quantity, lowers the
\* remaining quantity by that amount and sets took_partial, for every entry
\* quantity >= 1; a partial exit happens at most once per position.
C9_PartialForEveryQuantity ==
    [][ /\ (Managed /\ ~StopBreached /\ ~position.took_partial /\ MidpointReached)
           => \E q \in 1..position.remaining_quantity :
                 /\ 2 * q <= position.remaining_quantity + 1
                 /\ PartialTaken(q)
        /\ (Processed /\ IsOpen(position) /\ position.took_partial)
           => NoPartialOrdered ]_vars

\* C9 amended: as stated for every position holding at least 2 contracts, the
\* order being for floor(remaining / 2); a position of 1 contract sends no
\* partial order and keeps its remaining quantity and took_partial = false; a
\* partial exit happens at most once per position.
C9_PartialFromTwoContracts ==
    [][ /\ (Managed /\ ~StopBreached /\ ~position.took_partial /\ MidpointReached)
           => IF position.remaining_quantity >= 2
              THEN PartialTaken(position.remaining_quantity \div 2)
              ELSE /\ NoPartialOrdered
                   /\ IsOpen(position')
                         => /\ ~position'.took_partial
                            /\ position'.remaining_quantity = position.remaining_quantity
        /\ (Processed /\ IsOpen(position) /\ position.took_partial)
           => /\ NoPartialOrdered
              /\ IsOpen(position')
                    => /\ position'.took_partial
                       /\ position'.remaining_quantity = position.remaining_quantity
        /\ (Processed /\ IsOpen(position)
              /\ ~(Managed /\ ~StopBreached /\ MidpointReached))
           => NoPartialOrdered ]_vars

\* A long of 2 contracts has just sold 1 at the IB midpoint and stays open.
C9_Witness ==
    /\ position.is_long
    /\ position.quantity = 2
    /\ position.remaining_quantity = 1
    /\ position.took_partial
    /\ bar.close >= position.target_midpoint
    /\ orders = << [op |-> "market_order", qty |-> -1, tag |-> "partial"] >>

\* The close of the step's bar has reached the POC of that bar's profile snapshot.
LivePocReached ==
    /\ session_poc'.poc # NoPrice
    /\ IF position.is_long THEN bar'.close >= session_poc'.poc
       ELSE bar'.close <= session_poc'.poc

\* C10: on every managed bar that is not stopped out, the position is fully
\* closed if and only if the close has reached the POC of the current bar's
\* profile snapshot (long: close >= POC; short: close <= POC): the target is
\* the live POC of that bar, not the POC recorded at entry.
C10_ClosedIffLivePocReached ==
    [][ (Managed /\ ~StopBreached)
          => (position' = init_position_dict <=> LivePocReached) ]_vars

\* The cumulative P&L of the statistics is at or below -(max_daily_risk x pv);
\* P&L is in 1/UnitsPerPoint dollars, the risk fraction in hundredths.
CapBreached(stats, pv) ==
    stats.daily_pnl * Pct <= -(max_daily_risk * pv * UnitsPerPoint)

\* C11: once the cumulative P&L of DailyStats is at or below
\* -(max_daily_risk x portfolio value), no new entry is made on that bar or on
\* any later bar until DailyStats is reset for the next session.
C11_NoEntryAfterDailyCap ==
    [][ (\/ CapBreached(daily_stats, portfolio_value)
         \/ CapBreached(daily_stats', portfolio_value'))
          => /\ ~(Processed /\ EntryOrdered(orders'))
             /\ ~(~IsOpen(position) /\ IsOpen(position'))
             /\ daily_stats'.trades_taken <= daily_stats.trades_taken ]_vars

\* With the cap breached, a TRADING bar that passes every other gate of a
\* short entry (extended above the IB high, bearish confirmation, POC far
\* enough below) has been processed and left the engine flat.
C11_Witness ==
    /\ CapBreached(daily_stats, portfolio_value)
    /\ current_phase = "trading"
    /\ ~IsOpen(position)
    /\ orders = <<>>
    /\ ib_indicator.is_ready /\ ib_indicator.ib_complete /\ session_poc.is_ready
    /\ open_classifier.classification # "open_drive"
    /\ candle_patterns.any_bearish
    /\ bar.close > ib_indicator.ibh
    /\ 2 * (bar.close - ib_indicator.ibh) = ib_range(ib_indicator)
    /\ session_poc.poc # NoPrice
    /\ bar.close - session_poc.poc >= ib_range(ib_indicator)

\* The first bar processed on its calendar date.
FirstBarOfDate == Processed /\ now'.date # now.date

AnyLiquidated(os) == \E i \in 1..Len(os) : os[i].op = "liquidate"

\* C12: DailyStats (trades_taken, wins, losses, cumulative P&L) is reset once
\* per calendar session: on every date on which bars are processed it starts
\* from zero, so that after the first bar of a date it holds only what that bar
\* did, and it is not reset again by a later bar of the same date.
C12_StatsResetOncePerDate ==
    [][ /\ FirstBarOfDate
           => /\ daily_stats'.trades_taken = IF EntryOrdered(orders') THEN 1 ELSE 0
              /\ daily_stats'.wins + daily_stats'.losses
                    = IF AnyLiquidated(orders') THEN 1 ELSE 0
              /\ ~AnyLiquidated(orders') => daily_stats'.daily_pnl = 0
        /\ (Processed /\ ~FirstBarOfDate)
           => /\ daily_stats'.trades_taken >= daily_stats.trades_taken
              /\ daily_stats'.wins >= daily_stats.wins
              /\ daily_stats'.losses >= daily_stats.losses ]_vars

\* C16: in every reachable state the position is exactly one of flat, long,
\* short: is_long and is_short are never both true, and a flat position is
\* the dictionary _init_position_dict builds.
C16_DirectionExclusive ==
    /\ ~(position.is_long /\ position.is_short)
    /\ ~IsOpen(position) => position = init_position_dict
    /\ IsOpen(position) => position.quantity >= 1

\* A short, the second trade counted in DailyStats, is open after its partial exit.
C16_Witness ==
    /\ position.is_short
    /\ ~position.is_long
    /\ daily_stats.trades_taken = 2
    /\ daily_stats.wins + daily_stats.losses = 1
    /\ position.took_partial

\* Rank of a phase in the session order.
PhaseRank(ph) ==
    CASE ph = "pre_market" -> 0
      [] ph = "ib_formation" -> 1
      [] ph = "trading" -> 2
      [] ph = "eod_management" -> 3
      [] ph = "closed" -> 4

\* The phase the claim assigns to a time of day, in minutes after midnight.
ClaimedPhase(tod) ==
    CASE tod < 9 * 60 + 30 -> "pre_market"
      [] tod >= 9 * 60 + 30 /\ tod < 10 * 60 + 30 -> "ib_formation"
      [] tod >= 10 * 60 + 30 /\ tod < 14 * 60 + 30 -> "trading"
      [] tod >= 14 * 60 + 30 /\ tod < 15 * 60 + 45 -> "eod_management"
      [] tod >= 15 * 60 + 45 -> "closed"

\* C17: the phase used for a bar is a function of that bar's time of day
\* alone, recomputed on every bar: PRE_MARKET before 09:30, IB_FORMATION in
\* [09:30, 10:30), TRADING in [10:30, 14:30), EOD_MANAGEMENT in [14:30, 15:45),
\* CLOSED from 15:45; so within a calendar date the phase never moves backward
\* and it is PRE_MARKET again only on a pre-open bar of a later date.
C17_PhaseFromTimeOfDay ==
    [][ Processed
          => /\ current_phase' = ClaimedPhase(now'.tod)
             /\ now'.date = now.date
                   => PhaseRank(current_phase') >= PhaseRank(current_phase)
             /\ (current_phase' = "pre_market" /\ current_phase # "pre_market")
                   => now'.date > now.date /\ now'.tod < 9 * 60 + 30 ]_vars

\* After a whole session processed from its first bar to CLOSED, a pre-open
\* bar of the next date has brought the phase back to PRE_MARKET.
C17_Witness ==
    /\ current_phase = "pre_market"
    /\ now.date > 8
    /\ now.tod < market_open
    /\ daily_stats.date = now.date
    /\ bar.close = T(10)

\* ---- the quantities of an entry evaluation, as the claims state them, read
\* from the bar of the step and the indicator snapshot after it
\* A flat engine evaluates the bar of the step for an entry.
EntryEvaluated == Processed /\ current_phase' = "trading" /\ ~IsOpen(position)

EvalRange == ib_indicator'.ibh - ib_indicator'.ibl

EvalLong == bar'.close < ib_indicator'.ibl

EvalShort == bar'.close > ib_indicator'.ibh

\* Distance of the close beyond the IB edge; extension = EvalBeyond / EvalRange.
EvalBeyond ==
    IF EvalLong THEN ib_indicator'.ibl - bar'.close
    ELSE IF EvalShort THEN bar'.close - ib_indicator'.ibh
    ELSE 0

EvalConfirmed ==
    IF EvalLong THEN candle_patterns'.any_bullish ELSE candle_patterns'.any_bearish

\* Profit distance to the live POC; reward:risk = 2 * EvalProfit / EvalRange
\* for the stop of stop_ib_multiplier = 0.5 IB ranges.
EvalProfit ==
    IF EvalLong THEN session_poc'.poc - bar'.close ELSE bar'.close - session_poc'.poc

\* floor(pv x risk_per_trade x size_multiplier / (stop_distance x
\* contract_multiplier)), raised to 1 when it is 0 and pv exceeds 10,000;
\* 0 for a stop distance <= 0. The floor is the n with n*den <= num < (n+1)*den.
ClaimedContracts(stop_distance, cls, pv) ==
    IF stop_distance <= 0 THEN 0
    ELSE LET mult == CASE cls = "narrow" -> narrow_ib_size_mult
                       [] cls = "wide" -> wide_ib_size_mult
                       [] OTHER -> medium_ib_size_mult
             num == pv * risk_per_trade * mult * UnitsPerPoint
             den == Pct * Pct * stop_distance * contract_multiplier
             raw == CHOOSE n \in 0..1000 : n * den <= num /\ num < (n + 1) * den
         IN  IF raw = 0 THEN (IF pv > 10000 THEN 1 ELSE 0) ELSE raw

\* The seven factors of the setup score, summed.
ClaimedScore(cls, ext_n, ext_d, conf, vol, rr_n, rr_d, tod) ==
      (IF cls = "medium" \/ cls = "wide" THEN 2 ELSE 0)
    + 2
    + (IF 2 * ext_n >= ext_d /\ ext_n <= ext_d THEN 2 ELSE 0)
    + (IF conf THEN 1 ELSE 0)
    + (IF vol THEN 1 ELSE 0)
    + (IF 2 * rr_n >= 5 * rr_d THEN 1 ELSE 0)
    + (IF tod >= 10 * 60 + 30 /\ tod <= 12 * 60 + 30 THEN 1 ELSE 0)

EvalScore ==
    ClaimedScore(get_ib_classification(ib_indicator'), EvalBeyond, EvalRange,
                 EvalConfirmed, bar'.volume * 60 < ib_indicator'.ib_volume,
                 2 * EvalProfit, EvalRange, now'.tod)

EvalContracts ==
    ClaimedContracts(EvalRange \div 2, get_ib_classification(ib_indicator'),
                     portfolio_value)

\* One of the reasons for which an entry evaluation aborts.
AbortReason ==
    \/ ~ib_indicator'.is_ready \/ ~session_poc'.is_ready
    \/ EvalRange = 0
    \/ ~(EvalLong \/ EvalShort)
    \/ 2 * EvalBeyond < EvalRange \/ 2 * EvalBeyond > 3 * EvalRange
    \/ ~EvalConfirmed
    \/ EvalProfit <= 0
    \/ EvalProfit < EvalRange
    \/ EvalScore < min_score_to_trade
    \/ EvalContracts = 0

\* C13: when an entry evaluation aborts for any reason (indicator not ready,
\* IB range 0, extension out of band, no confirmation, non-positive profit
\* distance, R:R below minimum, score below minimum, position size 0), no
\* order is sent and Position and DailyStats are what they were before the
\* bar; an entry is never partially applied: when it is made, the order, the
\* whole position record and trades_taken change together.
C13_AbortLeavesStateUnchanged ==
    [][ EntryEvaluated
          => /\ AbortReason => ~EntryOrdered(orders')
             /\ ~EntryOrdered(orders')
                   => /\ orders' = <<>>
                      /\ position' = position
                      /\ daily_stats' = daily_stats
             /\ EntryOrdered(orders')
                   => /\ Len(orders') = 1
                      /\ IsOpen(position')
                      /\ position'.quantity >= 1
                      /\ position'.remaining_quantity = position'.quantity
                      /\ Abs(orders'[1].qty) = position'.quantity
                      /\ position'.entry_price = bar'.close
                      /\ position'.entry_time = now'
                      /\ daily_stats' = [daily_stats EXCEPT
                                           !.trades_taken = @ + 1] ]_vars

\* A long setup that passed every gate up to the sizing (4484.50 under the
\* 4490.00-4500.00 initial balance, bullish confirmation, POC 4497.00) was
\* evaluated with a portfolio value that sizes to 0 contracts: nothing changed.
C13_Witness ==
    /\ portfolio_value = 2000
    /\ current_phase = "trading"
    /\ ib_indicator.is_ready /\ session_poc.is_ready
    /\ open_classifier.classification = "open_auction"
    /\ get_ib_classification(ib_indicator) = "medium"
    /\ bar.close = Pt(4484, 2)
    /\ candle_patterns.any_bullish
    /\ session_poc.poc = Pt(4497, 0)
    /\ orders = <<>>
    /\ position = init_position_dict
    /\ daily_stats = init_daily_stats

\* C14: the position size is floor(pv x risk_per_trade x size_multiplier /
\* (stop_distance x contract_multiplier)); a result of 0 becomes 1 when pv
\* exceeds 10,000 and stays 0 otherwise; a stop distance <= 0 gives 0; the
\* multiplier is the narrow one for "narrow", the wide one for "wide" and the
\* medium one for anything else. An entry trades exactly that many contracts.
C14_PositionSizeFormula ==
    [][ /\ returned'.method = "_calculate_position_size"
          => returned'.result = ClaimedContracts(returned'.stop_distance,
                                                 returned'.ib_classification,
                                                 portfolio_value)
        /\ EntryEvaluated /\ EntryOrdered(orders')
          => /\ position'.quantity = EvalContracts
             /\ Abs(position'.entry_price - position'.stop_loss) = EvalRange \div 2 ]_vars

\* The formula gives 0 (20000 x 0.01 / (50 x 5) = 0.8) and the portfolio
\* value exceeds 10,000: the call returned one contract.
C14_Witness ==
    /\ returned.method = "_calculate_position_size"
    /\ portfolio_value = 20000
    /\ returned.stop_distance = 50 * UnitsPerPoint
    /\ returned.ib_classification = NoClass
    /\ returned.result = 1

\* Every gate of the entry evaluation before the score is passed.
EvalReachesScore ==
    /\ ib_indicator'.is_ready /\ session_poc'.is_ready
    /\ open_classifier'.classification # "open_drive"
    /\ ~CapBreached(daily_stats, portfolio_value)
    /\ EvalRange > 0
    /\ EvalLong \/ EvalShort
    /\ 2 * EvalBeyond >= EvalRange /\ 2 * EvalBeyond <= 3 * EvalRange
    /\ EvalConfirmed
    /\ EvalProfit >= EvalRange

C15_ScoreTooLow ==
    /\ now.tod = 13 * 60 + 30
    /\ current_phase = "trading"
    /\ portfolio_value = starting_cash
    /\ open_classifier.classification = "open_auction"
    /\ get_ib_classification(ib_indicator) = "narrow"
    /\ bar.close = Pt(4479, 0)
    /\ candle_patterns.any_bullish
    /\ bar.volume * 60 = ib_indicator.ib_volume
    /\ session_poc.poc = Pt(4490, 0)
    /\ position = init_position_dict
    /\ orders = <<>>

\* The scenario of the worked example: flat in the TRADING phase, indicators
\* ready, no drive day, daily cap not hit, IB 4490.00-4500.00 classified
\* medium, bar closing at 4484.50 with a bullish confirmation, live POC 4497.00.
Scenario ==
    /\ EntryEvaluated
    /\ ib_indicator'.is_ready /\ session_poc'.is_ready
    /\ open_classifier'.classification # "open_drive"
    /\ ~CapBreached(daily_stats, portfolio_value)
    /\ ib_indicator'.ibh = Pt(4500, 0)
    /\ ib_indicator'.ibl = Pt(4490, 0)
    /\ get_ib_classification(ib_indicator') = "medium"
    /\ bar'.close = Pt(4484, 2)
    /\ candle_patterns'.any_bullish
    /\ session_poc'.poc = Pt(4497, 0)

\* Extension 0.55, profit distance 12.50, R:R 2.5 and a score >= 4.
ScenarioFigures ==
    /\ EvalBeyond * Pct = 55 * EvalRange
    /\ EvalProfit = Pt(12, 2)
    /\ 2 * (2 * EvalProfit) = 5 * EvalRange
    /\ EvalScore >= 4

\* A long entry on the bar at 4484.50 with the stop at 4479.50 and the
\* quantity of the sizing formula.
ScenarioEntry ==
    /\ EntryOrdered(orders')
    /\ position'.is_long /\ ~position'.is_short
    /\ position'.entry_price = Pt(4484, 2)
    /\ position'.stop_loss = Pt(4479, 2)
    /\ position'.target_poc = Pt(4497, 0)
    /\ position'.entry_time = now'
    /\ position'.setup_score >= 4
    /\ position'.quantity = ClaimedContracts(Pt(5, 0), "medium", portfolio_value)
    /\ orders'[Len(orders')] =
          [op |-> "market_order", qty |-> position'.quantity, tag |-> "entry"]

\* C18 as stated: in the scenario the extension is 0.55, the stop 4479.50,
\* the profit distance 12.50, R:R 2.5, the score >= 4, and a long entry is
\* placed on that bar with the quantity of the sizing formula, entry price
\* 4484.50 and stop 4479.50.
C18_ScenarioEntersLong ==
    [][ Scenario => ScenarioFigures /\ ScenarioEntry ]_vars

\* C18, amended: the scenario has these figures, and the long entry is placed
\* whenever the sizing formula gives at least one contract; when it gives 0
\* (portfolio value below 2,500) nothing is ordered.
C18_ScenarioEntersLongWhenSized ==
    [][ Scenario
          => /\ ScenarioFigures
             /\ EvalContracts >= 1 => ScenarioEntry
             /\ EvalContracts = 0
                   => ~EntryOrdered(orders') /\ position' = position ]_vars

\* The scenario was entered with the starting cash of 100,000: 40 contracts
\* long from 4484.50 with the stop at 4479.50.
C18_Witness ==
    /\ portfolio_value = starting_cash
    /\ ib_indicator.ibh = Pt(4500, 0) /\ ib_indicator.ibl = Pt(4490, 0)
    /\ get_ib_classification(ib_indicator) = "medium"
    /\ bar.close = Pt(4484, 2)
    /\ session_poc.poc = Pt(4497, 0)
    /\ position.is_long
    /\ position.entry_time = now
    /\ position.entry_price = Pt(4484, 2)
    /\ position.stop_loss = Pt(4479, 2)
    /\ position.quantity = 40
    /\ orders = <<[op |-> "market_order", qty |-> 40, tag |-> "entry"]>>

\* ---- the volume profile
RECURSIVE BucketSum(_)
BucketSum(vp) ==
    IF vp = <<>> THEN 0 ELSE Head(vp).volume + BucketSum(Tail(vp))

\* update() started a new session with this bar.
ProfileWasReset == session_poc.session_date # now'.date /\ now'.tod >= session_start

\* The histogram the bar of the step was added to.
ProfileBefore == IF ProfileWasReset THEN <<>> ELSE session_poc.volume_profile

TotalBefore == IF ProfileWasReset THEN 0 ELSE session_poc.total_volume

\* The bar of the step was distributed over the histogram.
BarDistributed == now' # now /\ now'.tod >= session_start /\ bar'.volume > 0

\* The sum of the bucket increments of the update (in units of 1/FloatUnit).
BucketIncrements ==
    BucketSum(session_poc'.volume_profile) - BucketSum(ProfileBefore)

\* Floating tolerance: a relative error of at most 32 units in the last place
\* of the mantissa.
Within(a, b) == Abs(a - b) * Pow2(MantissaBits - 5) <= b

\* C19 as stated: for a bar with low < high and positive volume the bucket
\* increments of the update sum to bar.volume, and after any sequence of
\* updates since the last reset the sum of all bucket volumes equals
\* total_volume, which equals the cumulative volume of the bars processed
\* since that reset.
C19_VolumeConserved ==
    [][ now' # now
          => /\ BarDistributed /\ bar'.low < bar'.high
                  => BucketIncrements = bar'.volume * FloatUnit
             /\ BucketSum(session_poc'.volume_profile)
                  = session_poc'.total_volume * FloatUnit
             /\ session_poc'.total_volume
                  = TotalBefore + (IF BarDistributed THEN bar'.volume ELSE 0) ]_vars

\* C19, amended: the same equalities hold within floating tolerance for the
\* bucket increments and the bucket sum; total_volume is exactly the
\* cumulative volume of the bars processed since the reset.
C19_VolumeConservedWithinTolerance ==
    [][ now' # now
          => /\ BarDistributed /\ bar'.low < bar'.high
                  => Within(BucketIncrements, bar'.volume * FloatUnit)
             /\ Within(BucketSum(session_poc'.volume_profile),
                       session_poc'.total_volume * FloatUnit)
             /\ session_poc'.total_volume
                  = TotalBefore + (IF BarDistributed THEN bar'.volume ELSE 0) ]_vars

\* A bar from 100.00 to 100.25 with 100 contracts was added to a histogram
\* that held 100 contracts: the buckets sum to a little less than 200.
C19_Witness ==
    /\ bar = [high |-> Pt(100, 1), low |-> Pt(100, 0), close |-> Pt(100, 0),
              volume |-> 100]
    /\ session_poc.total_volume = 200
    /\ Len(session_poc.volume_profile) = 2
    /\ BucketSum(session_poc.volume_profile) < 200 * FloatUnit
    /\ Within(BucketSum(session_poc.volume_profile), 200 * FloatUnit)

\* C20: whenever the profile is non-empty, POC is a bucket whose volume is
\* maximal over all buckets, and of the buckets that tie for the maximum it is
\* the lowest-priced, whatever order the buckets were first touched in.
C20_PocIsLowestMaximalBucket ==
    LET vp == session_poc.volume_profile
    IN  vp # <<>>
          => /\ \E i \in 1..Len(vp) :
                   /\ vp[i].price = session_poc.poc
                   /\ vp[i].volume = session_poc.poc_volume
             /\ \A i \in 1..Len(vp) :
                   /\ vp[i].volume <= session_poc.poc_volume
                   /\ vp[i].volume = session_poc.poc_volume
                        => session_poc.poc <= vp[i].price

\* The volume of the buckets from VAL to VAH inclusive, without the bucket at
\* price skip (in units of 1/FloatUnit).
RECURSIVE ValueAreaVolume(_, _, _, _)
ValueAreaVolume(vp, val, vah, skip) ==
    IF vp = <<>> THEN 0
    ELSE (IF val <= Head(vp).price /\ Head(vp).price <= vah /\ Head(vp).price # skip
          THEN Head(vp).volume ELSE 0)
         + ValueAreaVolume(Tail(vp), val, vah, skip)

\* v units of volume are at least value_area_fraction x total_volume.
ReachesValueArea(v, total) == v * Pct >= value_area_pct * total * FloatUnit

\* C21: after any update with a defined POC, the volume of the buckets from
\* VAL to VAH inclusive is at least value_area_fraction x total_volume, and the
\* value area is minimal: without the VAH bucket, or without the VAL bucket,
\* the volume is below that threshold.
C21_ValueAreaMinimal ==
    LET vp == session_poc.volume_profile
        val == session_poc.val
        vah == session_poc.vah
        total == session_poc.total_volume
    IN  session_poc.poc # NoPrice
          => /\ ReachesValueArea(ValueAreaVolume(vp, val, vah, NoPrice), total)
             /\ ~ReachesValueArea(ValueAreaVolume(vp, val, vah, vah), total)
             /\ ~ReachesValueArea(ValueAreaVolume(vp, val, vah, val), total)

\* C22: the volume profile is per-session. On the first bar of a new calendar
\* date at or after session start everything is cleared before the bar is
\* added: the profile is that of a new indicator fed this bar alone (bar count
\* 1, not ready, total_volume the bar's volume, buckets only inside the bar's
\* range, no POC or value area when the bar has no volume). A bar before
\* session start changes nothing in the profile.
C22_ProfilePerSession ==
    [][ now' # now
          => /\ now'.tod < session_start => session_poc' = session_poc
             /\ ProfileWasReset
                  => /\ session_poc' = profile_update(profile_new, bar', now'.date, now'.tod)
                     /\ session_poc'.session_date = now'.date
                     /\ session_poc'.bar_count = 1
                     /\ ~session_poc'.is_ready
                     /\ session_poc'.total_volume = bar'.volume
                     /\ \A i \in 1..Len(session_poc'.volume_profile) :
                           /\ bar'.low <= session_poc'.volume_profile[i].price
                           /\ session_poc'.volume_profile[i].price <= bar'.high
                     /\ bar'.volume = 0
                           => /\ session_poc'.volume_profile = <<>>
                              /\ session_poc'.poc = NoPrice
                              /\ session_poc'.vah = NoPrice
                              /\ session_poc'.val = NoPrice
                     /\ bar'.volume > 0
                           => /\ Within(BucketSum(session_poc'.volume_profile),
                                        bar'.volume * FloatUnit)
                              /\ session_poc'.poc # NoPrice ]_vars

\* The opening bar of the second session, 100.50-100.75 with 100 contracts, is
\* all the profile holds.
C22_Witness ==
    /\ now = [date |-> MaxDate, tod |-> session_start]
    /\ bar = [high |-> Pt(100, 3), low |-> Pt(100, 2), close |-> Pt(100, 3),
              volume |-> 100]
    /\ session_poc.session_date = MaxDate
    /\ session_poc.bar_count = 1
    /\ session_poc.total_volume = 100
    /\ Len(session_poc.volume_profile) = 2
    /\ session_poc.poc = Pt(100, 3)

\* C23: a bar with zero high-low range (high = low) contributes no
\* distribution: after the update every bucket volume and total_volume are
\* what they were (those of the cleared profile when the bar opens a session).
C23_ZeroRangeBarContributesNothing ==
    [][ now' # now /\ bar'.high = bar'.low
          => /\ session_poc'.volume_profile = ProfileBefore
             /\ session_poc'.total_volume = TotalBefore ]_vars

\* ---- the initial balance
\* The IB range, when IBH and IBL are defined.
BalanceRange == ib_indicator.ibh - ib_indicator.ibl

RECURSIVE RangeSum(_, _)
RangeSum(h, n) == IF n = 0 THEN 0 ELSE h[n] + RangeSum(h, n - 1)

\* The class of the ratio ib_range / avg_range, avg_range being the mean of
\* the history h: narrow below 0.70, wide above 1.30, medium otherwise.
RatioClass(r, h) ==
    IF 100 * r * Len(h) < 70 * RangeSum(h, Len(h)) THEN "narrow"
    ELSE IF 100 * r * Len(h) > 130 * RangeSum(h, Len(h)) THEN "wide"
    ELSE "medium"

\* The last n items of h.
LastOf(h, n) == IF Len(h) <= n THEN h ELSE SubSeq(h, Len(h) - n + 1, Len(h))

\* The finished session had a completed IB with a range above 0.
FinishedWithBalance ==
    /\ ib_indicator.ib_complete
    /\ ib_indicator.ibh # NoPrice /\ ib_indicator.ibl # NoPrice
    /\ BalanceRange > 0

\* The history after the bar of the step: with the finished session's range
\* when the bar opens a new date and that session qualifies, cut to the last
\* 20; unchanged otherwise.
HistoryAfterBar ==
    IF ib_indicator.current_date # now'.date /\ FinishedWithBalance
    THEN LastOf(Append(ib_indicator.ib_ranges, BalanceRange), 20)
    ELSE ib_indicator.ib_ranges

BalanceDefined == ib_indicator.ibh # NoPrice /\ ib_indicator.ibl # NoPrice

\* C24 as stated: whenever the IB range is defined, the classification is
\* narrow iff ib_range / avg_range < 0.70, wide iff the ratio > 1.30 and medium
\* in every other case, avg_range being the mean of the last <= 20 completed
\* sessions' IB ranges.
C24_ClassifiedWheneverRangeDefined ==
    BalanceDefined
      => /\ Len(ib_indicator.ib_ranges) <= 20
         /\ get_ib_classification(ib_indicator)
              = RatioClass(BalanceRange, ib_indicator.ib_ranges)

\* C24, amended: the same whenever the IB range is defined and the history
\* holds at least one session; with an empty history there is no
\* classification. The history is the last <= 20 sessions that finished with
\* a completed IB of positive range.
C24_ClassifiedByRatioOfHistory ==
    [][ now' # now
          => /\ ib_indicator'.ib_ranges = HistoryAfterBar
             /\ Len(ib_indicator'.ib_ranges) <= 20
             /\ BalanceDefined' /\ ib_indicator'.ib_ranges # <<>>
                  => get_ib_classification(ib_indicator')
                       = RatioClass(BalanceRange', ib_indicator'.ib_ranges)
             /\ ~BalanceDefined' \/ ib_indicator'.ib_ranges = <<>>
                  => get_ib_classification(ib_indicator') = NoClass ]_vars

\* Twenty sessions in the history, the 20-point one evicted and a 13.25-point
\* one appended last (mean 10.1625): an IB of 13.25 points is wide.
C24_Witness ==
    /\ Len(ib_indicator.ib_ranges) = 20
    /\ ib_indicator.ib_ranges[1] = Pt(10, 0)
    /\ ib_indicator.ib_ranges[20] = Pt(13, 1)
    /\ BalanceDefined
    /\ BalanceRange = Pt(13, 1)
    /\ get_ib_classification(ib_indicator) = "wide"
    /\ returned = NoCall

\* An IB of exactly 0.70 of the mean is medium.
C24_AtThreshold ==
    /\ ib_indicator.ib_ranges = History(10, 5)
    /\ BalanceDefined
    /\ BalanceRange = Pt(7, 0)
    /\ get_ib_classification(ib_indicator) = "medium"

\* The bar of the step belongs to the date the indicator is on.
SameBalanceDate == ib_indicator.current_date = now'.date

\* C25: within one date ib_complete turns from false to true exactly once, at
\* the first bar at or after the end of the IB window, and is_ready is then
\* (history length >= 5); it does not return to false before a bar of a new
\* date, which starts the date with ib_complete false.
C25_CompletesOncePerDate ==
    [][ now' # now
          => /\ SameBalanceDate /\ ib_indicator.ib_complete
                  => /\ ib_indicator'.ib_complete
                     /\ ib_indicator'.is_ready = ib_indicator.is_ready
             /\ ~SameBalanceDate \/ ~ib_indicator.ib_complete
                  => /\ ib_indicator'.ib_complete <=> now'.tod >= ib_end
                     /\ ib_indicator'.ib_complete
                          => ib_indicator'.is_ready
                               = (Len(ib_indicator'.ib_ranges) >= 5) ]_vars

\* The IB of 6.75 points of the date after the fifth session of history has
\* completed on a bar at 11:00, the first at or after 10:30: the indicator is
\* ready.
C25_Witness ==
    /\ now = [date |-> MaxDate - 2, tod |-> 660]
    /\ ib_indicator.current_date = now.date
    /\ ib_indicator.ib_complete
    /\ Len(ib_indicator.ib_ranges) = 5
    /\ ib_indicator.is_ready
    /\ BalanceDefined /\ BalanceRange = Pt(6, 3)
    /\ returned = NoCall

\* C26: the history receives at most one entry per finished session, on the
\* first bar of the next date and only if the finished IB was complete with a
\* range above 0; a session whose IB never completed is not appended; the
\* history never holds more than 20 entries, the oldest being evicted.
C26_HistoryOfFinishedSessions ==
    [][ now' # now
          => /\ SameBalanceDate => ib_indicator'.ib_ranges = ib_indicator.ib_ranges
             /\ ~SameBalanceDate /\ ~FinishedWithBalance
                  => ib_indicator'.ib_ranges = ib_indicator.ib_ranges
             /\ ~SameBalanceDate /\ FinishedWithBalance
                  => /\ Len(ib_indicator.ib_ranges) < 20
                          => ib_indicator'.ib_ranges
                               = Append(ib_indicator.ib_ranges, BalanceRange)
                     /\ Len(ib_indicator.ib_ranges) >= 20
                          => ib_indicator'.ib_ranges
                               = Append(Tail(ib_indicator.ib_ranges), BalanceRange)
             /\ Len(ib_indicator'.ib_ranges) <= 20 ]_vars

\* The 20-point session has been evicted from a full history by the finished
\* session of 10 points, on the first bar of the next date.
C26_Witness ==
    /\ now.date = MaxDate - 2
    /\ ib_indicator.current_date = now.date
    /\ ib_indicator.ib_ranges = History(10, 20)
    /\ returned = NoCall

\* C27: get_extension_amount and is_price_extended never raise, whatever the
\* price and the IB state.
C27_ExtensionQueriesNeverRaise ==
    /\ returned.method = "get_extension_amount" => ~returned.raised
    /\ returned.method = "is_price_extended" => ~returned.result.raised

\* ---- the opening classifier
\* The bar of the step belongs to the date the classifier is on.
SameOpenDate == open_classifier.current_date = now'.date

\* The bars of the date of the step collected before it.
BarsBefore == IF SameOpenDate THEN open_classifier.bars ELSE <<>>

\* The date of the step has been classified before it.
ClassifiedBefore == SameOpenDate /\ open_classifier.classification_complete

\* The bar of the step lies in the analysis window 09:30 <= time < 10:00.
InAnalysisWindow == 570 <= now'.tod /\ now'.tod < 600

\* C28: the classifier accumulates only bars with market open <= time of day
\* < analysis end, classifies exactly once per session, at the first bar at or
\* after the analysis end, yields UNKNOWN when fewer than 15 bars were
\* collected, and the classification does not change on later bars of the
\* date.
C28_ClassifiesOncePerSession ==
    [][ now' # now
          => /\ open_classifier'.bars
                  = IF InAnalysisWindow /\ ~ClassifiedBefore
                    THEN Append(BarsBefore, bar')
                    ELSE BarsBefore
             /\ ClassifiedBefore
                  => /\ open_classifier'.classification_complete
                     /\ open_classifier'.classification
                          = open_classifier.classification
             /\ ~ClassifiedBefore /\ now'.tod < 600
                  => /\ ~open_classifier'.classification_complete
                     /\ open_classifier'.classification = NoClass
             /\ ~ClassifiedBefore /\ now'.tod >= 600
                  => /\ open_classifier'.classification_complete
                     /\ open_classifier'.classification \in OpenTypes
                     /\ open_classifier'.classification = "unknown"
                          <=> Len(BarsBefore) < 15 ]_vars

\* Fourteen bars were collected when the bar at 10:00 came: UNKNOWN, still so
\* on the bar at 10:15.
C28_Witness ==
    /\ now.tod = 615
    /\ Len(open_classifier.bars) = 14
    /\ open_classifier.classification_complete
    /\ open_classifier.classification = "unknown"

\* Fifteen bars were collected and classified as other than UNKNOWN.
C28_Classified ==
    /\ now.tod = 615
    /\ Len(open_classifier.bars) = 15
    /\ open_classifier.classification = "open_rejection_reverse"

\* a > the decimal h / 100, a being the fraction [n, d].
Above(a, h) == 100 * a.n > h * a.d

\* a > the decimal m / 1000.
AboveMille(a, m) == 1000 * a.n > m * a.d

\* a < the decimal h / 100.
Below(a, h) == 100 * a.n < h * a.d

\* The rules of the decision, in their order.
OpenTypeRules(dr, ep, nm, pullback, rejection) ==
    << [matches |-> Above(dr, 70) /\ Above(ep, 75) /\ ~pullback, type |-> "open_drive"],
       [matches |-> rejection /\ Below(ep, 40), type |-> "open_rejection_reverse"],
       [matches |-> pullback /\ Above(ep, 60) /\ AboveMille(nm, 2),
        type |-> "open_test_drive"],
       [matches |-> Above(dr, 65) /\ Above(ep, 70) /\ AboveMille(nm, 3),
        type |-> "open_drive"],
       [matches |-> TRUE, type |-> "open_auction"] >>

\* The type of the first rule that matches.
FirstMatch(rules) ==
    rules[CHOOSE i \in DOMAIN rules :
            rules[i].matches /\ \A j \in 1..(i - 1) : ~rules[j].matches].type

\* The metrics _classify derives from the classifier s.
MetricsOf(s) ==
    LET final_close == s.bars[Len(s.bars)].close
        total_range == s.max_high - s.min_low
    IN  [directional_ratio |-> directional_ratio(s.bars),
         end_position |-> end_position(s, final_close, total_range),
         net_move_pct |-> net_move_pct(s, final_close),
         had_early_pullback |-> check_early_pullback(s, s.bars),
         had_rejection |-> check_rejection(s, s.bars)]

RuledOpenType(m) ==
    FirstMatch(OpenTypeRules(m.directional_ratio, m.end_position, m.net_move_pct,
                             m.had_early_pullback, m.had_rejection))

\* C29: given the derived metrics, the open type is that of the first rule
\* that matches, in the order: directional_ratio > 0.70 and end_position >
\* 0.75 and no early pullback, OPEN_DRIVE; rejection and end_position < 0.40,
\* OPEN_REJECTION_REVERSE; early pullback and end_position > 0.60 and net move
\* > 0.2%, OPEN_TEST_DRIVE; directional_ratio > 0.65 and end_position > 0.70
\* and net move > 0.3%, OPEN_DRIVE; else OPEN_AUCTION.
C29_FirstMatchingRuleDecides ==
    [][ ( /\ now' # now
          /\ ~ClassifiedBefore
          /\ now'.tod >= 600
          /\ Len(BarsBefore) >= 15
          /\ open_classifier.max_high # open_classifier.min_low )
          => open_classifier'.classification
               = RuledOpenType(MetricsOf(open_classifier)) ]_vars

\* A session that matches both the test drive and the secondary open drive
\* (10 of 15 bars up, a close below the open among the first ten, the close
\* at the high, 0.5% above the open) is an OPEN_TEST_DRIVE.
C29_Witness ==
    /\ open_classifier.classification_complete
    /\ Len(open_classifier.bars) = 15
    /\ open_classifier.classification = "open_test_drive"
    /\ LET m == MetricsOf(open_classifier)
       IN  /\ m.had_early_pullback
           /\ Above(m.directional_ratio, 65) /\ ~Above(m.directional_ratio, 70)
           /\ Above(m.end_position, 70)
           /\ AboveMille(m.net_move_pct, 3)

\* A second run: a classifier constructed anew, fed bars_list a minute apart
\* from 09:30 and then a bar at 10:00.
SecondRun(bars_list) ==
    classifier_update(classifier_run(classifier_new, bars_list, 1, 570),
                      OpenBar(OpenLevel, OpenLevel), 1, 600)

\* C30: the classification of a session is determined only by the bars of
\* that session in the analysis window: the first bar of a date leaves the
\* classifier as it leaves a new one, and a classification of >= 15 bars is
\* the one a second run gives the same bars, whatever came before.
C30_ClassificationOfSessionBarsOnly ==
    [][ now' # now
          => /\ ~SameOpenDate
                  => open_classifier'
                       = classifier_update(classifier_new, bar', now'.date, now'.tod)
             /\ open_classifier'.classification_complete
                /\ Len(open_classifier'.bars) >= 15
                  => open_classifier'.classification
                       = SecondRun(open_classifier'.bars).classification ]_vars

\* After a session classified OPEN_DRIVE on a first move down, the session
\* of the next date, opening with a first move up, is an OPEN_AUCTION.
C30_Witness ==
    /\ now = [date |-> MaxDate, tod |-> 600]
    /\ PriorSession.classification = "open_drive"
    /\ PriorSession.first_move_direction = "down"
    /\ Len(open_classifier.bars) = 15
    /\ open_classifier.first_move_direction = "up"
    /\ open_classifier.classification = "open_auction"

\* ---- the value-area expansion
\* The buckets of the profile in ascending price.
RECURSIVE BucketsAscending(_)
BucketsAscending(vp) ==
    IF vp = <<>> THEN <<>>
    ELSE LET lowest == CHOOSE i \in 1..Len(vp) : \A j \in 1..Len(vp) : vp[i].price <= vp[j].price
         IN  <<vp[lowest]>>
               \o BucketsAscending([k \in 1..(Len(vp) - 1) |->
                                       IF k < lowest THEN vp[k] ELSE vp[k + 1]])

\* The side on which the run lo..hi of the buckets sb grows next: the only
\* side left, else the side of the greater adjacent volume, else upward.
SideTaken(sb, lo, hi) ==
    IF hi = Len(sb) /\ lo = 1 THEN "none"
    ELSE IF lo = 1 THEN "up"
    ELSE IF hi = Len(sb) THEN "down"
    ELSE IF sb[hi + 1].volume >= sb[lo - 1].volume THEN "up"
    ELSE "down"

\* The run of buckets reached from lo..hi holding acc, a bucket at a time,
\* until acc >= target or no bucket is left.
RECURSIVE GreedyRun(_, _, _, _, _)
GreedyRun(sb, lo, hi, acc, target) ==
    IF acc >= target \/ SideTaken(sb, lo, hi) = "none" THEN <<lo, hi>>
    ELSE IF SideTaken(sb, lo, hi) = "up"
    THEN GreedyRun(sb, lo, hi + 1, fl(acc + sb[hi + 1].volume, 1), target)
    ELSE GreedyRun(sb, lo - 1, hi, fl(acc + sb[lo - 1].volume, 1), target)

\* The run grown from the POC bucket of the profile s.
RunFromPoc(s) ==
    LET sb == BucketsAscending(s.volume_profile)
        at == CHOOSE i \in 1..Len(sb) : sb[i].price = s.poc
        run == GreedyRun(sb, at, at, sb[at].volume,
                         fl(s.total_volume * fl(70 * FloatUnit, 100), 1))
    IN  [val |-> sb[run[1]].price, vah |-> sb[run[2]].price]

\* C34: the value area is the run of buckets grown from the POC bucket by
\* taking, a step at a time, the adjacent bucket of the greater volume (the
\* upper one when equal) until the accumulated volume >= value_area_fraction
\* x total_volume or no bucket is left; it is contiguous and contains the POC.
C34_ValueAreaGrownFromPoc ==
    session_poc.poc # NoPrice
      => /\ session_poc.val = RunFromPoc(session_poc).val
         /\ session_poc.vah = RunFromPoc(session_poc).vah
         /\ session_poc.val <= session_poc.poc
         /\ session_poc.poc <= session_poc.vah

\* The buckets next above and next below the POC hold the same volume, and
\* the value area has taken the upper one alone.
C34_Witness ==
    /\ session_poc.poc # NoPrice
    /\ session_poc.val = session_poc.poc
    /\ session_poc.vah = session_poc.poc + TickSize
    /\ profile_get(session_poc.volume_profile, session_poc.poc + TickSize) > 0
    /\ profile_get(session_poc.volume_profile, session_poc.poc + TickSize)
         = profile_get(session_poc.volume_profile, session_poc.poc - TickSize)

\* ---- the prior-day context
\* The bar of the step is the first of a calendar date for the context.
PriorDateChange == prior_day.current_date # now'.date

\* The date the context is on has regular-session data.
HadRegularSession == prior_day.current_date # NoDate /\ prior_day.session_high # NoPrice

\* The prior-day accessors of the context s.
PriorDayFields(s) ==
    [high |-> s.prior_day_high, low |-> s.prior_day_low, open |-> s.prior_day_open,
     close |-> s.prior_day_close, poc |-> s.prior_day_poc, vah |-> s.prior_day_vah,
     val |-> s.prior_day_val]

\* The levels of the session the context s is tracking.
SessionFields(s) ==
    [high |-> s.session_high, low |-> s.session_low, open |-> s.session_open,
     close |-> s.session_close, poc |-> s.session_poc, vah |-> s.session_vah,
     val |-> s.session_val]

\* The history entry of the session the context s is tracking.
SessionRecord(s) ==
    [date |-> s.current_date, high |-> s.session_high, low |-> s.session_low,
     open |-> s.session_open, close |-> s.session_close, poc |-> s.session_poc,
     vah |-> s.session_vah, val |-> s.session_val]

\* C31: the prior-day fields change exactly once per session transition. On
\* the first bar of a new date after a date with regular-session data, that
\* date's levels are appended to the history (at most 5 entries, the oldest
\* evicted) and copied into the prior-day accessors, and is_ready becomes and
\* stays true; on every other bar, and at a date change after a date without
\* regular-session data, the accessors and the history are unchanged.
C31_PriorDayOncePerTransition ==
    [][ now' # now
          => /\ PriorDateChange /\ HadRegularSession
                  => /\ prior_day'.history
                          = LastOf(Append(prior_day.history, SessionRecord(prior_day)), 5)
                     /\ PriorDayFields(prior_day') = SessionFields(prior_day)
                     /\ prior_day'.is_ready
             /\ ~(PriorDateChange /\ HadRegularSession)
                  => /\ prior_day'.history = prior_day.history
                     /\ PriorDayFields(prior_day') = PriorDayFields(prior_day)
                     /\ prior_day'.is_ready = prior_day.is_ready
             /\ Len(prior_day'.history) <= 5 ]_vars

\* The seventh session has begun: the history holds the five sessions before
\* the last, the first of the six evicted, and the accessors those of the
\* newest entry.
C31_Witness ==
    /\ now.date = MaxDate - 1
    /\ Len(prior_day.history) = 5
    /\ prior_day.history[1].date = MaxDate - 6
    /\ prior_day.history[5].date = MaxDate - 2
    /\ prior_day.prior_day_high = prior_day.history[5].high
    /\ prior_day.prior_day_poc = prior_day.history[5].poc
    /\ prior_day.prior_day_poc # NoPrice
    /\ prior_day.is_ready

\* The levels of the result of the volume profile s.
SnapshotLevels(s) == [poc |-> s.poc, vah |-> s.vah, val |-> s.val]

\* The profile levels the context s holds for its session.
AbsorbedLevels(s) == [poc |-> s.session_poc, vah |-> s.session_vah, val |-> s.session_val]

\* The bar of the step lies in the regular session 09:30 <= time < 16:00.
InRegularSession == 570 <= now'.tod /\ now'.tod < 960

\* C32 as stated: after every update that carries a profile snapshot, at any
\* time of day, the session poc/vah/val of the context equal the snapshot's,
\* so the prior-day POC/VAH/VAL published at the next date change equal the
\* profile's values as of the last bar of the finished date.
C32_AbsorbsSnapshotAlways ==
    [][ now' # now
          => /\ AbsorbedLevels(prior_day') = SnapshotLevels(session_poc')
             /\ PriorDateChange /\ HadRegularSession
                  => [poc |-> prior_day'.prior_day_poc, vah |-> prior_day'.prior_day_vah,
                      val |-> prior_day'.prior_day_val] = SnapshotLevels(session_poc) ]_vars

\* C32, amended: the snapshot is absorbed in the regular session only. After
\* an update with 09:30 <= time < 16:00 the session poc/vah/val of the context
\* equal the snapshot's; an update at another time leaves them as they are,
\* cleared when it is the first of a date; the levels published at a date
\* change are those the context held, the profile's as of the last
\* regular-session bar of the finished date.
C32_AbsorbsSnapshotInRegularSession ==
    [][ now' # now
          => /\ InRegularSession
                  => AbsorbedLevels(prior_day') = SnapshotLevels(session_poc')
             /\ ~InRegularSession /\ ~PriorDateChange
                  => AbsorbedLevels(prior_day') = AbsorbedLevels(prior_day)
             /\ ~InRegularSession /\ PriorDateChange
                  => AbsorbedLevels(prior_day')
                       = [poc |-> NoPrice, vah |-> NoPrice, val |-> NoPrice]
             /\ PriorDateChange /\ HadRegularSession
                  => [poc |-> prior_day'.prior_day_poc, vah |-> prior_day'.prior_day_vah,
                      val |-> prior_day'.prior_day_val] = AbsorbedLevels(prior_day) ]_vars

\* A bar at 16:00 has moved the POC of the profile to 101.00; the context
\* published, on the first bar of the next date, the POC of the last bar
\* before 16:00.
C32_Witness ==
    /\ now.tod = 540
    /\ session_poc.poc = Pt(101, 0)
    /\ prior_day.prior_day_poc # NoPrice
    /\ prior_day.prior_day_poc < Pt(101, 0)
    /\ prior_day.history # <<>>
    /\ prior_day.history[Len(prior_day.history)].date = now.date - 1
    /\ prior_day.session_poc = NoPrice

\* ---- the IB levels
\* IBH, IBL and IB volume of the date of the step before its bar.
LevelsBefore ==
    IF SameBalanceDate
    THEN [ibh |-> ib_indicator.ibh, ibl |-> ib_indicator.ibl,
          ib_volume |-> ib_indicator.ib_volume]
    ELSE [ibh |-> NoPrice, ibl |-> NoPrice, ib_volume |-> 0]

\* The bar of the step lies in the IB window 09:30 <= time < 10:30.
InBalanceWindow == 570 <= now'.tod /\ now'.tod < 630

\* C35: IBH and IBL are the maximum high and the minimum low of the bars of
\* the date with IB start <= time < IB end, and ib_volume their summed
\* volume: a bar in the window extends them, a bar outside it (before the
\* open, or after the window end) leaves the three unchanged.
C35_BalanceOfWindowBars ==
    [][ now' # now
          => /\ InBalanceWindow
                  => /\ ib_indicator'.ibh
                          = IF LevelsBefore.ibh = NoPrice \/ bar'.high > LevelsBefore.ibh
                            THEN bar'.high ELSE LevelsBefore.ibh
                     /\ ib_indicator'.ibl
                          = IF LevelsBefore.ibl = NoPrice \/ bar'.low < LevelsBefore.ibl
                            THEN bar'.low ELSE LevelsBefore.ibl
                     /\ ib_indicator'.ib_volume = LevelsBefore.ib_volume + bar'.volume
             /\ ~InBalanceWindow
                  => /\ ib_indicator'.ibh = LevelsBefore.ibh
                     /\ ib_indicator'.ibl = LevelsBefore.ibl
                     /\ ib_indicator'.ib_volume = LevelsBefore.ib_volume ]_vars

\* The bar at 11:00 trades at 120.00, above the IB of the two window bars
\* (high 113.25, low 100.00, volume 200), which stands as it was.
C35_Witness ==
    /\ now.tod = 660
    /\ bar.high = Pt(120, 0)
    /\ ib_indicator.current_date = now.date
    /\ ib_indicator.ib_complete
    /\ ib_indicator.ibh = Pt(113, 1)
    /\ ib_indicator.ibl = Pt(100, 0)
    /\ ib_indicator.ib_volume = 200
    /\ ib_indicator.ib_ranges = <<>>

\* ---- the engulfing pattern
\* The body of the bar b, and its colour.
BodyOf(b) == IF b.close >= b.open THEN b.close - b.open ELSE b.open - b.close

IsBullishBar(b) == b.close > b.open

IsBearishBar(b) == b.close < b.open

\* The bars the detector has seen before the step, the last one last.
SeenBefore == candle_patterns.bars

\* The bar of the step engulfs, bullishly, the bar before it.
BullishEngulfing ==
    /\ SeenBefore # <<>>
    /\ LET prev == SeenBefore[Len(SeenBefore)]
       IN  /\ BodyOf(bar') > BodyOf(prev)
           /\ IsBearishBar(prev) /\ IsBullishBar(bar')
           /\ bar'.open <= prev.close /\ bar'.close >= prev.open

BearishEngulfing ==
    /\ SeenBefore # <<>>
    /\ LET prev == SeenBefore[Len(SeenBefore)]
       IN  /\ BodyOf(bar') > BodyOf(prev)
           /\ IsBullishBar(prev) /\ IsBearishBar(bar')
           /\ bar'.open >= prev.close /\ bar'.close <= prev.open

\* C36: an engulfing pattern is flagged for a bar iff its body is strictly
\* larger than the previous bar's, its colour is opposite, and its body
\* contains the previous body (bullish: previous bearish, current bullish,
\* open <= previous close, close >= previous open; bearish symmetric); on the
\* first bar the detector ever sees no pattern of any kind is flagged.
C36_EngulfingFlagged ==
    [][ now' # now
          => /\ candle_patterns'.last_patterns.bullish_engulfing <=> BullishEngulfing
             /\ candle_patterns'.last_patterns.bearish_engulfing <=> BearishEngulfing
             /\ SeenBefore = <<>>
                  => candle_patterns'.last_patterns = empty_patterns ]_vars

\* The second bar of a new detector, 100.00 up to 100.75, engulfs the first,
\* 100.50 down to 100.25.
C36_Witness ==
    /\ Len(candle_patterns.bars) = 2
    /\ candle_patterns.bars[1].open = Pt(100, 2)
    /\ candle_patterns.bars[1].close = Pt(100, 1)
    /\ candle_patterns.bars[2].open = Pt(100, 0)
    /\ candle_patterns.bars[2].close = Pt(100, 3)
    /\ candle_patterns.last_patterns.bullish_engulfing
    /\ ~candle_patterns.last_patterns.bearish_engulfing

\* A bar processed on the calendar date of the bar before it, both before the
\* end of the initial balance: no entry can have been made on this date yet.
LaterBarBeforeTrading ==
    /\ Processed
    /\ now'.date = now.date
    /\ now'.tod < ib_end

\* C33: when the first bar of a calendar date is already at or after 09:30,
\* the reset of DailyStats is delayed by one bar at most: once the second bar
\* of the date has been processed the statistics of the previous date are
\* cleared, so that a bar processed after another one of its date, before any
\* entry of that date is possible, leaves the counters and the P&L at zero.
C33_StatsClearedBySecondBar ==
    [][ LaterBarBeforeTrading
          => /\ daily_stats'.trades_taken = 0
             /\ daily_stats'.wins = 0
             /\ daily_stats'.losses = 0
             /\ daily_stats'.daily_pnl = 0 ]_vars

\* C37: while a position is open its quantity is at least 1 and
\* 1 <= remaining_quantity <= quantity, with remaining_quantity < quantity
\* exactly when took_partial is true; while flat, quantity, remaining_quantity,
\* entry price, stop and both targets are 0 and both flags are false.
C37_QuantitiesConsistent ==
    /\ IsOpen(position)
         => /\ position.quantity >= 1
            /\ 1 <= position.remaining_quantity
            /\ position.remaining_quantity <= position.quantity
            /\ (position.remaining_quantity < position.quantity)
                 <=> position.took_partial
    /\ ~IsOpen(position)
         => /\ position.quantity = 0
            /\ position.remaining_quantity = 0
            /\ position.entry_price = 0
            /\ position.stop_loss = 0
            /\ position.target_poc = 0
            /\ position.target_midpoint = 0
            /\ ~position.at_breakeven
            /\ ~position.took_partial

\* A short of two contracts on the bar that bought one of them back at the
\* midpoint of the initial balance.
C37_Witness ==
    /\ position.is_short
    /\ position.quantity = 2
    /\ position.remaining_quantity = 1
    /\ position.took_partial
    /\ bar.close <= position.target_midpoint
    /\ \E i \in 1..Len(orders) : orders[i].tag = "partial" /\ orders[i].qty = 1

\* The step opens a position.
Entered == Processed /\ ~IsOpen(position) /\ IsOpen(position')

\* C38: at the moment of every entry the trade fades the IB extension with a
\* well-formed bracket: a long is entered below the IB low with
\* stop < entry < POC target and (target - entry) >= min_rr_ratio x
\* (entry - stop); a short is entered above the IB high with
\* POC target < entry < stop and (entry - target) >= min_rr_ratio x
\* (stop - entry); either way the stop is stop_ib_multiplier x IB range > 0
\* away from the entry price.
C38_EntryBracketWellFormed ==
    [][ Entered
          => LET p == position'
                 r == ib_range(ib_indicator')
                 distance == Abs(p.entry_price - p.stop_loss)
             IN  /\ ib_indicator'.ibh # NoPrice /\ ib_indicator'.ibl # NoPrice
                 /\ r > 0
                 /\ distance * Pct = stop_ib_multiplier * r
                 /\ p.entry_price = bar'.close
                 /\ p.is_long
                      => /\ p.entry_price < ib_indicator'.ibl
                         /\ p.stop_loss < p.entry_price
                         /\ p.entry_price < p.target_poc
                         /\ (p.target_poc - p.entry_price) * Pct
                               >= min_rr_ratio * (p.entry_price - p.stop_loss)
                 /\ p.is_short
                      => /\ p.entry_price > ib_indicator'.ibh
                         /\ p.stop_loss > p.entry_price
                         /\ p.entry_price > p.target_poc
                         /\ (p.entry_price - p.target_poc) * Pct
                               >= min_rr_ratio * (p.stop_loss - p.entry_price) ]_vars

\* A long entered on this bar at 4484.50, below the 4490.00-4500.00 initial
\* balance, with its stop at 4479.50 and the POC target at 4494.50: the reward
\* is exactly min_rr_ratio times the risk.
C38_Witness ==
    /\ position.is_long
    /\ position.entry_time = now
    /\ EntryOrdered(orders)
    /\ position.entry_price = Pt(4484, 2)
    /\ position.stop_loss = Pt(4479, 2)
    /\ position.target_poc = Pt(4494, 2)
    /\ ib_indicator.ibl = Pt(4490, 0)
    /\ ib_indicator.ibh = Pt(4500, 0)

\* C39: a position never carries over a session boundary: whatever the
\* weekday bars of the stream, the position is flat when the first bar of a
\* later calendar date arrives, and it is flat after every bar processed in
\* PRE_MARKET or IB_FORMATION.
C39_FlatAcrossSessionBoundary ==
    [][ /\ FirstBarOfDate => ~IsOpen(position)
        /\ (Processed /\ current_phase' \in {"pre_market", "ib_formation"})
              => ~IsOpen(position') ]_vars

\* The step closes the open position.
FullyClosed == Processed /\ IsOpen(position) /\ ~IsOpen(position')

\* Contracts bought or sold back by the partial exit of the step's bar.
PartialOnBar(os) ==
    IF \E i \in 1..Len(os) : os[i].tag = "partial"
    THEN Abs((CHOOSE o \in { os[i] : i \in 1..Len(os) } : o.tag = "partial").qty)
    ELSE 0

\* Contracts still held when the step closes the position.
HeldAtClose == position.remaining_quantity - PartialOnBar(orders')

\* (exit - entry) in the trade's direction, the exit being the close of the bar.
DirectedMove ==
    IF position.is_long THEN bar'.close - position.entry_price
    ELSE position.entry_price - bar'.close

\* C40: when a position is fully closed, the P&L added to the cumulative P&L
\* of DailyStats, which also decides between a win and a loss, is
\* (exit - entry) in the trade's direction x contract multiplier x the number
\* of contracts still held at the close (the remaining quantity after any
\* partial exit), not the quantity of the entry.
C40_PnlOfContractsHeld ==
    [][ FullyClosed
          => LET pnl == DirectedMove * contract_multiplier * HeldAtClose
             IN  /\ daily_stats'.daily_pnl = daily_stats.daily_pnl + pnl
                 /\ daily_stats'.wins = daily_stats.wins + (IF pnl > 0 THEN 1 ELSE 0)
                 /\ daily_stats'.losses
                       = daily_stats.losses + (IF pnl > 0 THEN 0 ELSE 1) ]_vars

====
